---- MODULE Spec2Model ----
(***************************************************************************)
(* A model of the citation addressing scheme (citation_system.py) and of   *)
(* the per-document search store (search_datastore.py).                    *)
(*                                                                         *)
(* Strings that the code formats or parses are sequences of one-character  *)
(* strings, so that formatting and parsing are computed character by       *)
(* character as the Python code computes them.                             *)
(***************************************************************************)
EXTENDS Integers, Sequences, FiniteSets, TLC

(***************************************************************************)
(* Bounds of the model.                                                    *)
(***************************************************************************)
\* the largest number used in an address field (two digits when >= 10)
MaxNum == 12
\* the most add_segments calls made on one CitationIndex
MaxAdds == 3

(***************************************************************************)
(* Python string primitives: str(int), str.split, str.startswith, int(str) *)
(***************************************************************************)
Digits == <<"0", "1", "2", "3", "4", "5", "6", "7", "8", "9">>

IsDigit(c) == \E i \in 1..10 : Digits[i] = c

DigitVal(c) == (CHOOSE i \in 1..10 : Digits[i] = c) - 1

RECURSIVE NatStr(_)
NatStr(n) ==
    IF n < 10 THEN <<Digits[n + 1]>>
    ELSE NatStr(n \div 10) \o <<Digits[(n % 10) + 1]>>

\* str(n) as an f-string formats an int
IntStr(n) == IF n < 0 THEN <<"-">> \o NatStr(0 - n) ELSE NatStr(n)

RECURSIVE NatVal(_)
NatVal(s) ==
    IF Len(s) = 0 THEN 0
    ELSE 10 * NatVal(SubSeq(s, 1, Len(s) - 1)) + DigitVal(s[Len(s)])

AllDigits(s) == Len(s) > 0 /\ \A i \in 1..Len(s) : IsDigit(s[i])

\* int(s): ok is FALSE where Python raises ValueError
ParseInt(s) ==
    IF AllDigits(s) THEN [ok |-> TRUE, val |-> NatVal(s)]
    ELSE IF Len(s) > 1 /\ s[1] = "-" /\ AllDigits(Tail(s))
         THEN [ok |-> TRUE, val |-> 0 - NatVal(Tail(s))]
    ELSE IF Len(s) > 1 /\ s[1] = "+" /\ AllDigits(Tail(s))
         THEN [ok |-> TRUE, val |-> NatVal(Tail(s))]
    ELSE [ok |-> FALSE, val |-> 0]

\* s.split(sep) for a one-character separator
RECURSIVE Split(_, _)
Split(s, sep) ==
    IF \A i \in 1..Len(s) : s[i] # sep THEN <<s>>
    ELSE LET i == CHOOSE k \in 1..Len(s) :
                      s[k] = sep /\ \A j \in 1..(k - 1) : s[j] # sep
         IN  <<SubSeq(s, 1, i - 1)>> \o Split(SubSeq(s, i + 1, Len(s)), sep)

\* s.startswith(p)
StartsWith(s, p) == Len(s) >= Len(p) /\ SubSeq(s, 1, Len(p)) = p

\* s[n:]
DropFirst(s, n) == SubSeq(s, n + 1, Len(s))

IsPrefix(p, s) == StartsWith(s, p)

(***************************************************************************)
(* SegmentType and DocumentAddress.  An absent section (None) is <<>>, a   *)
(* present one <<n>>.                                                      *)
(***************************************************************************)
SegmentType == <<"doc", "page", "section", "para", "sent", "phrase", "word", "char">>

SegmentTypes == {SegmentType[i] : i \in 1..Len(SegmentType)}

\* the position of a precision in the enumeration's order
Rank(p) == CHOOSE i \in 1..Len(SegmentType) : SegmentType[i] = p

DocumentAddress(doc, page, section, paragraph, sentence, phrase, cs, ce) ==
    [document_id |-> doc, page |-> page, section |-> section,
     paragraph |-> paragraph, sentence |-> sentence, phrase |-> phrase,
     char_start |-> cs, char_end |-> ce]

\* the mutant of ToReference: "word" is missing from the phrase list
ToReferenceNoWord(a, precision) ==
    LET r0 == <<"d", "o", "c", ":">> \o a.document_id \o <<":", "p">> \o IntStr(a.page)
        r1 == IF precision \in {"section", "para", "sent", "phrase", "word", "char"}
                 /\ a.section # <<>>
              THEN r0 \o <<".", "s", "e", "c">> \o IntStr(a.section[1]) ELSE r0
        r2 == IF precision \in {"para", "sent", "phrase", "word", "char"}
              THEN r1 \o <<".", "p", "a", "r", "a">> \o IntStr(a.paragraph) ELSE r1
        r3 == IF precision \in {"sent", "phrase", "word", "char"}
              THEN r2 \o <<".", "s", "e", "n", "t">> \o IntStr(a.sentence) ELSE r2
        r4 == IF precision \in {"phrase", "char"}
              THEN r3 \o <<".", "p", "h", "r", "a", "s", "e">> \o IntStr(a.phrase) ELSE r3
        r5 == IF precision \in {"char"}
              THEN r4 \o <<".", "c", "h", "a", "r">> \o IntStr(a.char_start)
                      \o <<"-">> \o IntStr(a.char_end)
              ELSE r4
    IN  r5

\* DocumentAddress.to_reference
ToReference(a, precision) ==
    LET r0 == <<"d", "o", "c", ":">> \o a.document_id \o <<":", "p">> \o IntStr(a.page)
        r1 == IF precision \in {"section", "para", "sent", "phrase", "word", "char"}
                 /\ a.section # <<>>
              THEN r0 \o <<".", "s", "e", "c">> \o IntStr(a.section[1]) ELSE r0
        r2 == IF precision \in {"para", "sent", "phrase", "word", "char"}
              THEN r1 \o <<".", "p", "a", "r", "a">> \o IntStr(a.paragraph) ELSE r1
        r3 == IF precision \in {"sent", "phrase", "word", "char"}
              THEN r2 \o <<".", "s", "e", "n", "t">> \o IntStr(a.sentence) ELSE r2
        r4 == IF precision \in {"phrase", "word", "char"}
              THEN r3 \o <<".", "p", "h", "r", "a", "s", "e">> \o IntStr(a.phrase) ELSE r3
        r5 == IF precision \in {"char"}
              THEN r4 \o <<".", "c", "h", "a", "r">> \o IntStr(a.char_start)
                      \o <<"-">> \o IntStr(a.char_end)
              ELSE r4
    IN  r5

\* cls(document_id=doc_id, page=0): the dataclass defaults
DefaultAddress(doc) == DocumentAddress(doc, 0, <<>>, 0, 0, 0, 0, 0)

\* one iteration of the loop over location_parts; st.ok is FALSE once int()
\* has raised ValueError
ParsePart(st, part) ==
    IF ~st.ok THEN st
    ELSE IF StartsWith(part, <<"p">>) THEN
        LET n == ParseInt(DropFirst(part, 1))
        IN  IF n.ok THEN [st EXCEPT !.addr.page = n.val] ELSE [st EXCEPT !.ok = FALSE]
    ELSE IF StartsWith(part, <<"s", "e", "c">>) THEN
        LET n == ParseInt(DropFirst(part, 3))
        IN  IF n.ok THEN [st EXCEPT !.addr.section = <<n.val>>] ELSE [st EXCEPT !.ok = FALSE]
    ELSE IF StartsWith(part, <<"p", "a", "r", "a">>) THEN
        LET n == ParseInt(DropFirst(part, 4))
        IN  IF n.ok THEN [st EXCEPT !.addr.paragraph = n.val] ELSE [st EXCEPT !.ok = FALSE]
    ELSE IF StartsWith(part, <<"s", "e", "n", "t">>) THEN
        LET n == ParseInt(DropFirst(part, 4))
        IN  IF n.ok THEN [st EXCEPT !.addr.sentence = n.val] ELSE [st EXCEPT !.ok = FALSE]
    ELSE IF StartsWith(part, <<"p", "h", "r", "a", "s", "e">>) THEN
        LET n == ParseInt(DropFirst(part, 6))
        IN  IF n.ok THEN [st EXCEPT !.addr.phrase = n.val] ELSE [st EXCEPT !.ok = FALSE]
    ELSE IF StartsWith(part, <<"c", "h", "a", "r">>) THEN
        LET char_range == Split(DropFirst(part, 4), "-")
            s == ParseInt(char_range[1])
            e == IF Len(char_range) > 1 THEN ParseInt(char_range[2]) ELSE s
        IN  IF s.ok /\ e.ok
            THEN [st EXCEPT !.addr.char_start = s.val, !.addr.char_end = e.val]
            ELSE [st EXCEPT !.ok = FALSE]
    ELSE st

RECURSIVE ParseParts(_, _)
ParseParts(st, parts) ==
    IF Len(parts) = 0 THEN st
    ELSE ParseParts(ParsePart(st, Head(parts)), Tail(parts))

\* DocumentAddress.from_reference: ok is FALSE where the code raises ValueError
\* (the explicit "Invalid reference format" or the one int() raises)
FromReference(reference) ==
    LET parts == Split(reference, ":")
    IN  IF Len(parts) < 3 \/ parts[1] # <<"d", "o", "c">>
        THEN [ok |-> FALSE, addr |-> DefaultAddress(<<>>)]
        ELSE LET st == ParseParts([ok |-> TRUE, addr |-> DefaultAddress(parts[2])],
                                  Split(parts[3], "."))
             IN  IF st.ok THEN st ELSE [ok |-> FALSE, addr |-> DefaultAddress(<<>>)]

(***************************************************************************)
(* Python dict helpers: a dict is a function whose DOMAIN is its key set.  *)
(***************************************************************************)
EmptyMap == [x \in {} |-> 0]

Put(f, k, v) == [x \in (DOMAIN f) \cup {k} |-> IF x = k THEN v ELSE f[x]]

\* dict.get(k, default)
Get(f, k, default) == IF k \in DOMAIN f THEN f[k] ELSE default

Range(s) == {s[i] : i \in 1..Len(s)}

(***************************************************************************)
(* citation_system.TextSegment and CitationIndex                           *)
(***************************************************************************)
\* hashlib.sha256(content).hexdigest()[:16]: a digest that differs from the
\* content and, on the texts of the model, differs for different contents
ContentHash(content) == <<"h">> \o content

CitSegment(address, content, segment_type) ==
    [address |-> address, content |-> content, segment_type |-> segment_type,
     content_hash |-> ContentHash(content)]

\* TextSegment.id
SegId(seg) == ToReference(seg.address, "char") \o <<"#">> \o seg.content_hash

\* TextSegment.get_reference
GetReference(seg, precision) == ToReference(seg.address, precision)

\* the mutant of RegisterReference: the last writer wins
RegisterReferenceOverwrite(ai, ref, id) == Put(ai, ref, id)

\* if ref not in self.address_index: self.address_index[ref] = segment.id
RegisterReference(ai, ref, id) ==
    IF ref \in DOMAIN ai THEN ai ELSE Put(ai, ref, id)

\* for precision in SegmentType: ... (from the i-th precision on)
RECURSIVE IndexReferences(_, _, _)
IndexReferences(ai, seg, i) ==
    IF i > Len(SegmentType) THEN ai
    ELSE IndexReferences(RegisterReference(ai, GetReference(seg, SegmentType[i]), SegId(seg)),
                         seg, i + 1)

\* the chain of references _build_hierarchy derives from one segment
HierarchyRefs(seg) ==
    LET addr == seg.address
        doc_ref == <<"d", "o", "c", ":">> \o addr.document_id
        page_ref == doc_ref \o <<":", "p">> \o IntStr(addr.page)
        section_refs == IF addr.section # <<>>
                        THEN <<page_ref \o <<".", "s", "e", "c">> \o IntStr(addr.section[1])>>
                        ELSE <<>>
        para_ref == GetReference(seg, "para")
        sent_refs == IF seg.segment_type \in {"sent", "phrase", "word"}
                     THEN <<GetReference(seg, "sent")>>
                     ELSE <<>>
    IN  <<doc_ref, page_ref>> \o section_refs \o <<para_ref>> \o sent_refs

\* the mutant of LinkChild: the child is appended without the membership test
LinkChildAlways(hi, parent_ref, child_ref) ==
    Put(hi, parent_ref, Append(Get(hi, parent_ref, <<>>), child_ref))

\* if child_ref not in self.hierarchy_index[parent_ref]: ...append(child_ref)
\* (hierarchy_index is a defaultdict(list): the lookup creates the key)
LinkChild(hi, parent_ref, child_ref) ==
    LET children == Get(hi, parent_ref, <<>>)
    IN  IF child_ref \in Range(children)
        THEN Put(hi, parent_ref, children)
        ELSE Put(hi, parent_ref, Append(children, child_ref))

RECURSIVE LinkChain(_, _, _)
LinkChain(hi, refs, i) ==
    IF i > Len(refs) - 1 THEN hi
    ELSE LinkChain(LinkChild(hi, refs[i], refs[i + 1]), refs, i + 1)

\* CitationIndex._build_hierarchy
BuildHierarchy(hi, seg) == LinkChain(hi, HierarchyRefs(seg), 1)

\* CitationIndex._add_segment on the index ci
AddSegment(ci, seg) ==
    [segments |-> Put(ci.segments, SegId(seg), seg),
     address_index |-> IndexReferences(ci.address_index, seg, 1),
     content_index |-> Put(ci.content_index, seg.content_hash,
                           Get(ci.content_index, seg.content_hash, {}) \cup {SegId(seg)}),
     hierarchy_index |-> BuildHierarchy(ci.hierarchy_index, seg)]

\* CitationIndex.add_segments
RECURSIVE AddSegments(_, _)
AddSegments(ci, segs) ==
    IF Len(segs) = 0 THEN ci
    ELSE AddSegments(AddSegment(ci, Head(segs)), Tail(segs))

\* a variant of ResolveCitation: an unknown reference gives a segment made up
\* from the reference
ResolveCitationMakeUp(ci, reference) ==
    LET segment_id == Get(ci.address_index, reference, <<>>)
    IN  IF segment_id # <<>> /\ segment_id \in DOMAIN ci.segments
        THEN <<ci.segments[segment_id]>>
        ELSE <<CitSegment(DefaultAddress(<<>>), reference, "sent")>>

\* CitationIndex.resolve_citation; None is <<>>, a segment s is <<s>>
ResolveCitation(ci, reference) ==
    LET segment_id == Get(ci.address_index, reference, <<>>)
    IN  IF segment_id # <<>> /\ segment_id \in DOMAIN ci.segments
        THEN <<ci.segments[segment_id]>>
        ELSE <<>>

\* the offsets of the surrounding sentences in get_context
SentOffsets == <<-1, 0, 1>>

\* the entry of get_context's surrounding list for one offset, if any
SurroundingEntry(ci, addr, sent_offset) ==
    LET sent_addr == DocumentAddress(addr.document_id, addr.page, addr.section,
                                     addr.paragraph, addr.sentence + sent_offset, 0, 0, 0)
        sent_ref == ToReference(sent_addr, "sent")
        sent_segment == ResolveCitation(ci, sent_ref)
    IN  IF sent_segment = <<>> THEN <<>>
        ELSE <<[offset |-> sent_offset, content |-> sent_segment[1].content,
                reference |-> sent_ref]>>

\* the loop of get_context over the offsets
Surrounding(ci, addr) ==
    SurroundingEntry(ci, addr, SentOffsets[1]) \o SurroundingEntry(ci, addr, SentOffsets[2])
        \o SurroundingEntry(ci, addr, SentOffsets[3])

\* CitationIndex.get_context; {} is <<>>, a dict d is <<d>>, and a key that
\* the dict lacks ("paragraph", "page") has the value <<>>
GetContext(ci, reference, context_type) ==
    LET found == ResolveCitation(ci, reference)
    IN  IF found = <<>> THEN <<>>
        ELSE LET segment == found[1]
                 para_segment == ResolveCitation(ci, GetReference(segment, "para"))
                 page_segment == ResolveCitation(ci, GetReference(segment, "page"))
             IN  <<[segment |-> segment, reference |-> reference,
                    content |-> segment.content, address |-> segment.address,
                    type |-> segment.segment_type,
                    paragraph |-> IF context_type = "paragraph" /\ para_segment # <<>>
                                  THEN <<para_segment[1].content>> ELSE <<>>,
                    page |-> IF context_type = "page" /\ page_segment # <<>>
                             THEN <<page_segment[1].content>> ELSE <<>>,
                    surrounding |-> Surrounding(ci, segment.address)]>>

\* CitationIndex.__init__
EmptyCitationIndex ==
    [segments |-> EmptyMap, address_index |-> EmptyMap,
     content_index |-> EmptyMap, hierarchy_index |-> EmptyMap]

(***************************************************************************)
(* search_datastore.TextSegment and SemanticIndex.  A content or a query   *)
(* is a string of characters; a word is a string without whitespace.       *)
(***************************************************************************)
UpperCase == <<"A", "B", "C">>
LowerCase == <<"a", "b", "c">>

LowerChar(c) ==
    IF \E i \in 1..Len(UpperCase) : UpperCase[i] = c
    THEN LowerCase[CHOOSE i \in 1..Len(UpperCase) : UpperCase[i] = c]
    ELSE c

\* str.lower()
Lower(s) == [i \in 1..Len(s) |-> LowerChar(s[i])]

\* str.split(): the maximal runs of non-blank characters
RECURSIVE SplitWords(_)
SplitWords(s) ==
    IF Len(s) = 0 THEN <<>>
    ELSE IF s[1] = " " THEN SplitWords(Tail(s))
    ELSE LET n == IF \E k \in 1..Len(s) : s[k] = " "
                  THEN (CHOOSE k \in 1..Len(s) :
                            s[k] = " " /\ \A j \in 1..(k - 1) : s[j] # " ") - 1
                  ELSE Len(s)
         IN  <<SubSeq(s, 1, n)>> \o SplitWords(DropFirst(s, n))

TextSegment(id, content, page, paragraph, sentence, keywords, entities) ==
    [id |-> id, content |-> content, page |-> page, paragraph |-> paragraph,
     sentence |-> sentence, keywords |-> keywords, entities |-> entities]

\* SemanticIndex()
EmptyIndex ==
    [segments |-> EmptyMap, inverted_index |-> EmptyMap, position_index |-> EmptyMap,
     entity_index |-> EmptyMap, proximity_graph |-> EmptyMap]

\* for word in words: self.inverted_index[word].add(segment.id)
RECURSIVE AddWords(_, _, _)
AddWords(inv, words, id) ==
    IF Len(words) = 0 THEN inv
    ELSE AddWords(Put(inv, Head(words), Get(inv, Head(words), {}) \cup {id}),
                  Tail(words), id)

\* for entity in segment.entities: self.entity_index[entity['type']].add(segment.id)
RECURSIVE AddEntities(_, _, _)
AddEntities(ent, entities, id) ==
    IF Len(entities) = 0 THEN ent
    ELSE AddEntities(Put(ent, Head(entities).type, Get(ent, Head(entities).type, {}) \cup {id}),
                     Tail(entities), id)

\* SemanticIndex.add_segment
IndexAddSegment(idx, segment) ==
    [idx EXCEPT
        !.segments = Put(@, segment.id, segment),
        !.position_index =
            Put(@, <<segment.page, segment.paragraph, segment.sentence>>, segment.id),
        !.inverted_index = AddWords(@, SplitWords(Lower(segment.content)), segment.id),
        !.entity_index = AddEntities(@, segment.entities, segment.id)]

\* a new SemanticIndex populated from a list of segments
RECURSIVE AddAll(_, _)
AddAll(idx, segs) ==
    IF Len(segs) = 0 THEN idx ELSE AddAll(IndexAddSegment(idx, Head(segs)), Tail(segs))

BuildIndex(segs) == AddAll(EmptyIndex, segs)

PositionKey(seg) == <<seg.page, seg.paragraph, seg.sentence>>

KeyLess(a, b) ==
    \/ a[1] < b[1]
    \/ a[1] = b[1] /\ a[2] < b[2]
    \/ a[1] = b[1] /\ a[2] = b[2] /\ a[3] < b[3]

\* sorted(results, key=lambda s: (s.page, s.paragraph, s.sentence))
RECURSIVE SortByPosition(_)
SortByPosition(S) ==
    IF S = {} THEN <<>>
    ELSE LET m == CHOOSE x \in S : \A y \in S : ~KeyLess(PositionKey(y), PositionKey(x))
         IN  <<m>> \o SortByPosition(S \ {m})

\* SemanticIndex._exact_search
ExactSearch(idx, query) ==
    LET query_words == Range(SplitWords(Lower(query)))
        matching == UNION {Get(idx.inverted_index, w, {}) : w \in query_words}
    IN  SortByPosition({idx.segments[id] : id \in matching})

\* the positions of word in text_words
Positions(text_words, word) == {i \in 1..Len(text_words) : text_words[i] = word}

\* the default of max_distance in _check_proximity
MaxDistance == 10

\* a variant of CheckProximity: the distance between the words is not tested
CheckProximityAnyDistance(text, words) ==
    \A k \in 1..Len(words) : Positions(SplitWords(text), words[k]) # {}

\* SemanticIndex._check_proximity
CheckProximity(text, words) ==
    LET text_words == SplitWords(text)
        Abs(x) == IF x < 0 THEN 0 - x ELSE x
    IN  /\ \A k \in 1..Len(words) : Positions(text_words, words[k]) # {}
        /\ \A k \in 1..(Len(words) - 1) :
              \E p1 \in Positions(text_words, words[k]) :
              \E p2 \in Positions(text_words, words[k + 1]) :
                  Abs(p1 - p2) <= MaxDistance

\* SemanticIndex._proximity_search
ProximitySearch(idx, query) ==
    LET words == SplitWords(Lower(query))
    IN  IF Len(words) < 2 THEN ExactSearch(idx, query)
        ELSE LET candidates ==
                     {id \in Get(idx.inverted_index, words[1], {}) :
                         \A k \in 2..Len(words) : id \in Get(idx.inverted_index, words[k], {})}
             IN  SortByPosition({idx.segments[id] :
                     id \in {c \in candidates :
                                CheckProximity(Lower(idx.segments[c].content), words)}})

\* SemanticIndex._entity_search
EntitySearch(idx, entity_type) ==
    SortByPosition({idx.segments[id] : id \in Get(idx.entity_index, entity_type, {})})

\* a variant of HybridSearch: the exact results are left out
HybridSearchProximityOnly(idx, query) ==
    SortByPosition({idx.segments[id] :
                       id \in {r.id : r \in Range(ProximitySearch(idx, query))}})

\* SemanticIndex._hybrid_search
HybridSearch(idx, query) ==
    LET exact_results == {r.id : r \in Range(ExactSearch(idx, query))}
        proximity_results == {r.id : r \in Range(ProximitySearch(idx, query))}
    IN  SortByPosition({idx.segments[id] : id \in exact_results \cup proximity_results})

\* SemanticIndex.deterministic_search
DeterministicSearch(idx, query, search_type) ==
    IF search_type = "exact" THEN ExactSearch(idx, query)
    ELSE IF search_type = "semantic" THEN <<>>
    ELSE IF search_type = "proximity" THEN ProximitySearch(idx, query)
    ELSE IF search_type = "entity" THEN EntitySearch(idx, query)
    ELSE HybridSearch(idx, query)

RECURSIVE Gcd(_, _)
Gcd(a, b) == IF b = 0 THEN a ELSE Gcd(b, a % b)

\* a float quotient n / d of two naturals, kept as the reduced fraction <<n, d>>
Fraction(n, d) == IF n = 0 THEN <<0, 1>> ELSE <<n \div Gcd(n, d), d \div Gcd(n, d)>>

\* SearchDataStore._calculate_similarity
CalculateSimilarity(seg1, seg2) ==
    LET words1 == Range(SplitWords(Lower(seg1.content)))
        words2 == Range(SplitWords(Lower(seg2.content)))
    IN  IF words1 = {} \/ words2 = {} THEN <<0, 1>>
        ELSE Fraction(Cardinality(words1 \cap words2), Cardinality(words1 \cup words2))

(***************************************************************************)
(* citation_system.DeterministicSegmenter.  The three regular expressions  *)
(* are computed on the characters of the text; a text of the model is made *)
(* of the letters of UpperCase and LowerCase, digits, ".", " " and "\n".   *)
(***************************************************************************)
NewLine == "\n"

\* \s
WhiteSpace == {" ", NewLine}

\* [.!?]
EndMarks == {".", "!", "?"}

\* [A-Z]
IsUpper(c) == \E i \in 1..Len(UpperCase) : UpperCase[i] = c

\* \w
IsWordChar(c) == IsUpper(c) \/ IsDigit(c) \/ \E i \in 1..Len(LowerCase) : LowerCase[i] = c

RECURSIVE LStrip(_)
LStrip(s) == IF Len(s) > 0 /\ s[1] \in WhiteSpace THEN LStrip(Tail(s)) ELSE s

RECURSIVE RStrip(_)
RStrip(s) ==
    IF Len(s) > 0 /\ s[Len(s)] \in WhiteSpace THEN RStrip(SubSeq(s, 1, Len(s) - 1)) ELSE s

\* str.strip()
Strip(s) == RStrip(LStrip(s))

\* the last position of the longest run of \s that starts at i (i - 1: no run)
WhiteSpaceEnd(s, i) ==
    IF i > Len(s) \/ s[i] \notin WhiteSpace THEN i - 1
    ELSE CHOOSE e \in i..Len(s) :
             /\ \A k \in i..e : s[k] \in WhiteSpace
             /\ e = Len(s) \/ s[e + 1] \notin WhiteSpace

\* \b between the positions p - 1 and p
WordBoundary(s, p) ==
    (p - 1 >= 1 /\ p - 1 <= Len(s) /\ IsWordChar(s[p - 1]))
        # (p >= 1 /\ p <= Len(s) /\ IsWordChar(s[p]))

\* (?=\d+\.|\w+\.|\b[A-Z][A-Z\s]+\b) at position k
SectionHead(s, k) ==
    \/ \E m \in k..(Len(s) - 1) : (\A j \in k..m : IsDigit(s[j])) /\ s[m + 1] = "."
    \/ \E m \in k..(Len(s) - 1) : (\A j \in k..m : IsWordChar(s[j])) /\ s[m + 1] = "."
    \/ /\ k <= Len(s) /\ WordBoundary(s, k) /\ IsUpper(s[k])
       /\ \E m \in (k + 1)..Len(s) :
              /\ \A j \in (k + 1)..m : IsUpper(s[j]) \/ s[j] \in WhiteSpace
              /\ WordBoundary(s, m + 1)

\* the last position of the match of a pattern that starts at position i of
\* s, 0 when none starts there (no match of the three patterns is empty)
\*   paragraph_pattern  \n\s*\n+
\*   sentence_pattern   (?<=[.!?])\s+(?=[A-Z])|(?<=[.!?])\s*\n+\s*(?=[A-Z])
\*   section_pattern    \n\s*(?=\d+\.|\w+\.|\b[A-Z][A-Z\s]+\b)
MatchEnd(pattern, s, i) ==
    IF pattern = "paragraph" THEN
        LET w == WhiteSpaceEnd(s, i + 1)
            breaks == {j \in (i + 1)..w : s[j] = NewLine}
        IN  IF s[i] = NewLine /\ breaks # {}
            THEN CHOOSE j \in breaks : \A k \in breaks : k <= j
            ELSE 0
    ELSE IF pattern = "sentence" THEN
        LET w == WhiteSpaceEnd(s, i)
        IN  IF /\ i > 1 /\ s[i - 1] \in EndMarks
               /\ w < Len(s) /\ IsUpper(s[w + 1])
               /\ \/ w >= i
                  \/ \E j \in i..w : s[j] = NewLine
            THEN w
            ELSE 0
    ELSE
        LET w == WhiteSpaceEnd(s, i + 1)
        IN  IF s[i] = NewLine /\ SectionHead(s, w + 1) THEN w ELSE 0

\* pattern.split(s): the pieces of s between the matches, which are found
\* from left to right, each search starting where the last match ended; a
\* match is taken at i when one starts there and no match that starts before
\* i reaches i (matches of one pattern that overlap end at the same place)
PatternSplit(pattern, s) ==
    LET end == [i \in 1..Len(s) |-> MatchEnd(pattern, s, i)]
        starts == {i \in 1..Len(s) : end[i] # 0 /\ \A j \in 1..(i - 1) : end[j] < i}
        nth(k) == CHOOSE i \in starts : Cardinality({j \in starts : j < i}) = k - 1
        n == Cardinality(starts)
    IN  [k \in 1..(n + 1) |->
            SubSeq(s, IF k = 1 THEN 1 ELSE end[nth(k - 1)] + 1,
                      IF k = n + 1 THEN Len(s) ELSE nth(k) - 1)]

\* [x.strip() for x in pieces if x.strip()]
StripAll(pieces) ==
    LET stripped == [k \in 1..Len(pieces) |-> Strip(pieces[k])]
    IN  SelectSeq(stripped, LAMBDA x : Len(x) > 0)

\* len(s.strip()) > 50 in _split_sections
MinSectionLength == 50

\* len(sentence) < 10 in _segment_sentences
MinSentenceLength == 10

\* DeterministicSegmenter._split_sections
SplitSections(content) ==
    LET potential_splits == PatternSplit("section", content)
    IN  IF /\ Len(potential_splits) > 1
           /\ \A k \in 1..Len(potential_splits) :
                  Len(Strip(potential_splits[k])) > MinSectionLength
        THEN StripAll(potential_splits)
        ELSE <<content>>

\* a variant of SentenceAddress: sentences are numbered from 1
SentenceAddressFromOne(para_address, sent_idx, char_offset, sentence) ==
    DocumentAddress(para_address.document_id, para_address.page, para_address.section,
                    para_address.paragraph, sent_idx + 1, 0,
                    para_address.char_start + char_offset,
                    para_address.char_start + char_offset + Len(sentence))

\* sent_address in _segment_sentences
SentenceAddress(para_address, sent_idx, char_offset, sentence) ==
    DocumentAddress(para_address.document_id, para_address.page, para_address.section,
                    para_address.paragraph, sent_idx, 0,
                    para_address.char_start + char_offset,
                    para_address.char_start + char_offset + Len(sentence))

\* a variant of SentenceLoop: a skipped sentence leaves the offset as it is
RECURSIVE SentenceLoopSkipFree(_, _, _, _)
SentenceLoopSkipFree(para_address, sentences, sent_idx, char_offset) ==
    IF sent_idx >= Len(sentences) THEN <<>>
    ELSE LET sentence == sentences[sent_idx + 1]
         IN  IF Len(sentence) < MinSentenceLength
             THEN SentenceLoopSkipFree(para_address, sentences, sent_idx + 1, char_offset)
             ELSE <<CitSegment(SentenceAddress(para_address, sent_idx, char_offset, sentence),
                               sentence, "sent")>>
                  \o SentenceLoopSkipFree(para_address, sentences, sent_idx + 1,
                                          char_offset + Len(sentence) + 1)

\* the loop of _segment_sentences from the sentence of index sent_idx on
RECURSIVE SentenceLoop(_, _, _, _)
SentenceLoop(para_address, sentences, sent_idx, char_offset) ==
    IF sent_idx >= Len(sentences) THEN <<>>
    ELSE LET sentence == sentences[sent_idx + 1]
         IN  IF Len(sentence) < MinSentenceLength
             THEN SentenceLoop(para_address, sentences, sent_idx + 1,
                               char_offset + Len(sentence) + 1)
             ELSE <<CitSegment(SentenceAddress(para_address, sent_idx, char_offset, sentence),
                               sentence, "sent")>>
                  \o SentenceLoop(para_address, sentences, sent_idx + 1,
                                  char_offset + Len(sentence) + 1)

\* DeterministicSegmenter._segment_sentences
SegmentSentences(para_address, paragraph) ==
    SentenceLoop(para_address, StripAll(PatternSplit("sentence", paragraph)), 0, 0)

\* the loop of _segment_paragraphs from the paragraph of index para_idx on
RECURSIVE ParagraphLoop(_, _, _, _)
ParagraphLoop(base_address, paragraphs, para_idx, char_offset) ==
    IF para_idx >= Len(paragraphs) THEN <<>>
    ELSE LET paragraph == paragraphs[para_idx + 1]
             para_address ==
                 DocumentAddress(base_address.document_id, base_address.page,
                                 base_address.section, para_idx, 0, 0,
                                 char_offset, char_offset + Len(paragraph))
         IN  <<CitSegment(para_address, paragraph, "para")>>
             \o SegmentSentences(para_address, paragraph)
             \o ParagraphLoop(base_address, paragraphs, para_idx + 1,
                              char_offset + Len(paragraph) + 2)

\* DeterministicSegmenter._segment_paragraphs
SegmentParagraphs(base_address, content) ==
    ParagraphLoop(base_address, StripAll(PatternSplit("paragraph", content)), 0, 0)

\* the loop of _segment_page over the sections from index sec_idx on
RECURSIVE SectionLoop(_, _, _, _)
SectionLoop(document_id, page_num, sections, sec_idx) ==
    IF sec_idx >= Len(sections) THEN <<>>
    ELSE LET section_address ==
                 DocumentAddress(document_id, page_num,
                                 IF Len(sections) > 1 THEN <<sec_idx>> ELSE <<>>,
                                 0, 0, 0, 0, 0)
         IN  SegmentParagraphs(section_address, sections[sec_idx + 1])
             \o SectionLoop(document_id, page_num, sections, sec_idx + 1)

\* DeterministicSegmenter._segment_page
SegmentPage(document_id, page_num, page_content) ==
    LET content == Strip(page_content)
        page_address == DocumentAddress(document_id, page_num, <<>>, 0, 0, 0, 0, Len(content))
    IN  <<CitSegment(page_address, content, "page")>>
        \o SectionLoop(document_id, page_num, SplitSections(content), 0)

\* the loop of segment_document over the sorted items
RECURSIVE SegmentPagesOf(_, _)
SegmentPagesOf(document_id, items) ==
    IF Len(items) = 0 THEN <<>>
    ELSE SegmentPage(document_id, items[1][1], items[1][2])
         \o SegmentPagesOf(document_id, Tail(items))

\* sorted(pages.items()): pages is a dict, here the list of its (page_num,
\* page_content) items in the order in which the keys were inserted; no key
\* occurs twice, so the items are sorted by page_num
SortedItems(pages) ==
    LET rank(k) == Cardinality({j \in DOMAIN pages : pages[j][1] < pages[k][1]}) + 1
    IN  [r \in 1..Len(pages) |-> pages[CHOOSE k \in DOMAIN pages : rank(k) = r]]

\* a variant of SegmentDocument: the pages are taken as the dict iterates
SegmentDocumentAsInserted(document_id, pages) == SegmentPagesOf(document_id, pages)

\* DeterministicSegmenter.segment_document
SegmentDocument(document_id, pages) == SegmentPagesOf(document_id, SortedItems(pages))

\* CitationIndex.validate_integrity; the issues are kept as a set, without
\* the order in which the dictionaries are walked
ValidateIntegrity(ci) ==
    [total_segments |-> Cardinality(DOMAIN ci.segments),
     address_mappings |-> Cardinality(DOMAIN ci.address_index),
     content_duplicates |->
         Cardinality({h \in DOMAIN ci.content_index : Cardinality(ci.content_index[h]) > 1}),
     hierarchy_nodes |-> Cardinality(DOMAIN ci.hierarchy_index),
     issues |->
         {<<"Orphaned reference", ref, ci.address_index[ref]>> :
             ref \in {r \in DOMAIN ci.address_index :
                         ci.address_index[r] \notin DOMAIN ci.segments}}
         \cup
         {<<"Duplicate content", Cardinality(ci.content_index[h] \cap DOMAIN ci.segments), h>> :
             h \in {x \in DOMAIN ci.content_index :
                       /\ Cardinality(ci.content_index[x]) > 1
                       /\ Cardinality(ci.content_index[x] \cap DOMAIN ci.segments) > 1}}]

(***************************************************************************)
(* State.                                                                  *)
(*   address, precision, reference, decoded, origin, codec_pc: one use of  *)
(*     the address codec (to_reference / from_reference);                  *)
(*   citation_index, added: one CitationIndex and the segments given to    *)
(*     add_segments so far, in order; manager: the process_document calls  *)
(*     a CitationManager has served on that index, in order;               *)
(*   segmented: the segment_document calls a DeterministicSegmenter has    *)
(*     served, in order, each with what it returned (the segmenter itself  *)
(*     keeps no state); lookup: the last resolve_citation or get_context   *)
(*     call on the CitationIndex, what it returned and how many documents  *)
(*     the manager had served by then;                                     *)
(*   caches: the PDFSearchCache objects ever created, a cache's handle     *)
(*     being its position; pdf_caches: SearchDataStore.pdf_caches, from    *)
(*     pdf id to handle; total_searches, popular_queries: global_metrics   *)
(*     (popular_queries in insertion order, as a dict iterates);           *)
(*   th: per thread, the call it is executing and that call's locals;      *)
(*   calls: the calls started; n_search: the search calls that found a     *)
(*     cache (history variable).                                           *)
(***************************************************************************)
VARIABLES address, precision, reference, decoded, origin, codec_pc,
          citation_index, added,
          caches, pdf_caches, total_searches, popular_queries, th, calls, n_search,
          manager, segmented, lookup

\* no resolve_citation or get_context call yet
NoLookup ==
    [op |-> "none", reference |-> <<>>, context_type |-> "", served |-> 0, result |-> <<>>]

codecVars == <<address, precision, reference, decoded, origin, codec_pc>>
citationVars == <<citation_index, added, manager, segmented, lookup>>
storeVars == <<caches, pdf_caches, total_searches, popular_queries, th, calls, n_search>>
vars == <<codecVars, citationVars, storeVars>>

(***************************************************************************)
(* Inputs of the codec.                                                    *)
(***************************************************************************)
NumVals == {0, 1, MaxNum}

DocIds == {<<"X">>, <<"f", ".", "1">>}

Addresses ==
    {DocumentAddress(d, pg, sec, para, sent, ph, cs, ce) :
        d \in DocIds, pg \in NumVals, sec \in {<<>>} \cup {<<n>> : n \in {0, MaxNum}},
        para \in NumVals, sent \in {0, MaxNum}, ph \in {0, 1},
        cs \in {0, 1}, ce \in {1, MaxNum}}

\* reference strings handed to from_reference that no to_reference call made
RawReferences ==
    { <<"d", "o", "c", ":", "X", ":">>,
      <<"d", "o", "c", ":", "X", ":", "s", "e", "c", "1">>,
      <<"d", "o", "c", ":", "X">>,
      <<"d", "o", "x", ":", "X", ":", "p", "1">>,
      <<"d", "o", "c", ":", ":", "p", "1">>,
      <<"d", "o", "c", ":", "X", ":", "p", "1">>,
      <<"d", "o", "c", ":", "X", ":", "p", "1", ".", "f", "o", "o", "7">>,
      <<"d", "o", "c", ":", "X", ":", "p", "1", ".", "s", "e", "n", "t", "3">>,
      <<"d", "o", "c", ":", "X", ":", "p", "1", ".", "p", "a", "r", "a", "2">>,
      <<"d", "o", "c", ":", "X", ":", "p", "1", ".", "s", "e", "c", "2", ".",
        "s", "e", "n", "t", "3", ".", "c", "h", "a", "r", "4", "-", "9">>,
      <<"d", "o", "c", ":", "X", ":", "p", "1", ".", "c", "h", "a", "r", "5">>,
      <<"d", "o", "c", ":", "X", ":", "p", "1", ".", "c", "h", "a", "r", "4", "-", "1">>,
      <<"d", "o", "c", ":", "X", ":", "p", "1", ".", "p", "h", "r", "a", "s", "e", "4">> }

NoResult == [ok |-> FALSE, addr |-> DefaultAddress(<<>>)]

\* reference = address.to_reference(p)
Encode(p) ==
    /\ codec_pc = "start"
    /\ precision' = p
    /\ reference' = ToReference(address, p)
    /\ origin' = "encode"
    /\ codec_pc' = "encoded"
    /\ UNCHANGED <<address, decoded, citationVars, storeVars>>

\* a caller supplies the reference string r
Give(r) ==
    /\ codec_pc = "start"
    /\ reference' = r
    /\ origin' = "given"
    /\ codec_pc' = "given"
    /\ UNCHANGED <<address, precision, decoded, citationVars, storeVars>>

\* decoded = DocumentAddress.from_reference(reference)
Decode ==
    /\ codec_pc \in {"encoded", "given"}
    /\ decoded' = FromReference(reference)
    /\ codec_pc' = "decoded"
    /\ UNCHANGED <<address, precision, reference, origin, citationVars, storeVars>>

(***************************************************************************)
(* Inputs of the CitationIndex: segments as the segmenter emits them (a    *)
(* page, its paragraph, the paragraph's sentences) and a sentence of a     *)
(* sectioned page with the same text.                                      *)
(***************************************************************************)
PageSeg == CitSegment(DocumentAddress(<<"X">>, 1, <<>>, 0, 0, 0, 0, MaxNum), <<"A", "B">>, "page")
ParaSeg == CitSegment(DocumentAddress(<<"X">>, 1, <<>>, 0, 0, 0, 0, MaxNum), <<"A", "B">>, "para")
Sent0Seg == CitSegment(DocumentAddress(<<"X">>, 1, <<>>, 0, 0, 0, 0, 1), <<"A">>, "sent")
Sent1Seg == CitSegment(DocumentAddress(<<"X">>, 1, <<>>, 0, 1, 0, 1, MaxNum), <<"B">>, "sent")
SecSentSeg == CitSegment(DocumentAddress(<<"X">>, 1, <<0>>, 0, 1, 0, 0, 1), <<"A">>, "sent")
OtherParaSeg == CitSegment(DocumentAddress(<<"f", ".", "1">>, 0, <<>>, 1, 0, 0, 0, 1), <<"C">>, "para")

CitSegments == {PageSeg, ParaSeg, Sent0Seg, Sent1Seg, SecSentSeg, OtherParaSeg}

SegmentLists == {<<a>> : a \in CitSegments} \cup {<<a, b>> : a, b \in CitSegments}

\* index.add_segments(segs)
CitAddSegments(segs) ==
    /\ Len(added) + Len(segs) <= MaxAdds
    /\ citation_index' = AddSegments(citation_index, segs)
    /\ added' = added \o segs
    /\ UNCHANGED <<manager, segmented, lookup, codecVars, storeVars>>

(***************************************************************************)
(* Inputs of the CitationManager: page texts made of sentences, and        *)
(* documents made of such pages.                                           *)
(***************************************************************************)
\* the most process_document calls served by one CitationManager
MaxDocuments == 2

\* a word: a capital letter and n times the letter a
Word(c, n) == <<c>> \o [k \in 1..n |-> "a"]

\* "Caaa aaaaa.": a sentence no shorter than MinSentenceLength
SentenceOf(c) == Word(c, 3) \o <<" ">> \o Word("a", 4) \o <<".">>

\* "Ba.": a sentence shorter than MinSentenceLength
ShortSentence == Word("B", 1) \o <<".">>

\* a numbered heading and a sentence, longer than MinSectionLength
NumberedSection(n, c) ==
    IntStr(n) \o <<".", " ">> \o Word(c, 25) \o <<" ">> \o Word("a", 24) \o <<".">>

\* a page text: its passages and what separates one from the next
PageOf(units, sep) == [units |-> units, sep |-> sep]

OneSentence == PageOf(<<SentenceOf("A")>>, <<" ">>)
TwoSentences == PageOf(<<SentenceOf("A"), SentenceOf("B")>>, <<" ">>)
TwoParagraphs == PageOf(<<SentenceOf("A"), SentenceOf("B")>>, <<NewLine, NewLine>>)
TwoSections == PageOf(<<NumberedSection(1, "A"), NumberedSection(2, "B")>>, <<NewLine>>)
ShortFirst == PageOf(<<ShortSentence, SentenceOf("A")>>, <<" ">>)
RepeatedParagraph == PageOf(<<SentenceOf("A"), SentenceOf("A")>>, <<NewLine, NewLine>>)
OtherSentence == PageOf(<<SentenceOf("C")>>, <<" ">>)

\* the text of a page: its passages joined by the separator
RECURSIVE Join(_, _)
Join(units, sep) ==
    IF Len(units) = 0 THEN <<>>
    ELSE IF Len(units) = 1 THEN units[1]
    ELSE units[1] \o sep \o Join(Tail(units), sep)

Render(page) == Join(page.units, page.sep)

\* pages: Dict[int, str], here from page number to the page's passages
Documents ==
    {[p \in {1} |-> pg] : pg \in {OneSentence, TwoSentences, TwoParagraphs, TwoSections,
                                  ShortFirst, RepeatedParagraph, OtherSentence}}
    \cup {[p \in {1, 2} |-> IF p = 1 THEN pg ELSE OtherSentence] :
              pg \in {OneSentence, TwoParagraphs, TwoSections, ShortFirst}}
    \cup {[p \in {1, 2} |-> IF p = 1 THEN OneSentence ELSE TwoSentences]}

\* the items of a dict whose keys were inserted in ascending order
ItemsOf(dict) ==
    LET rank(p) == Cardinality({q \in DOMAIN dict : q < p}) + 1
    IN  [r \in 1..Cardinality(DOMAIN dict) |->
            LET p == CHOOSE q \in DOMAIN dict : rank(q) = r IN <<p, dict[p]>>]

\* CitationManager.process_document(document_id, pages)
ProcessDocument(document_id, source) ==
    /\ Len(manager) < MaxDocuments
    /\ LET pages == ItemsOf([p \in DOMAIN source |-> Render(source[p])])
           segments == SegmentDocument(document_id, pages)
           index == AddSegments(citation_index, segments)
       IN  /\ citation_index' = index
           /\ added' = added \o segments
           /\ manager' = Append(manager,
                                [document_id |-> document_id, source |-> source,
                                 pages |-> pages, segments |-> segments,
                                 index_integrity |-> ValidateIntegrity(index)])
    /\ UNCHANGED <<segmented, lookup, codecVars, storeVars>>

(***************************************************************************)
(* Inputs of a DeterministicSegmenter used on its own: dicts of pages as   *)
(* lists of items in insertion order, with empty pages, pages given out of *)
(* order and a page number 0.                                              *)
(***************************************************************************)
\* the most segment_document calls served by one DeterministicSegmenter
MaxSegmentCalls == 2

EmptyPage == PageOf(<<>>, <<>>)
BlankPage == PageOf(<<<<" ", NewLine, " ">>>>, <<>>)
ShortMiddle == PageOf(<<SentenceOf("A"), ShortSentence, SentenceOf("C")>>, <<" ">>)

PageDicts ==
    {<<<<1, EmptyPage>>>>, <<<<1, BlankPage>>>>, <<<<1, ShortMiddle>>>>,
     <<<<1, ShortFirst>>>>, <<<<1, TwoSections>>>>, <<<<0, TwoSentences>>>>,
     <<<<1, TwoParagraphs>>, <<2, OtherSentence>>>>,
     <<<<2, OtherSentence>>, <<1, TwoParagraphs>>>>,
     <<<<1, EmptyPage>>, <<2, OneSentence>>>>,
     <<<<2, OneSentence>>, <<1, EmptyPage>>>>}

\* segmenter.segment_document(document_id, pages)
SegmentDocumentCall(document_id, source) ==
    /\ Len(segmented) < MaxSegmentCalls
    /\ LET pages == [k \in DOMAIN source |-> <<source[k][1], Render(source[k][2])>>]
       IN  segmented' = Append(segmented,
                               [document_id |-> document_id, source |-> source,
                                pages |-> pages,
                                segments |-> SegmentDocument(document_id, pages)])
    /\ UNCHANGED <<citation_index, added, manager, lookup, codecVars, storeVars>>

(***************************************************************************)
(* Lookups in the CitationIndex of a CitationManager: the references of    *)
(* the segments it holds, and strings that no segment has.                 *)
(***************************************************************************)
\* one sentence more than TwoParagraphs has, in the first paragraph
TwoAndOne ==
    PageOf(<<SentenceOf("A") \o <<" ">> \o SentenceOf("B"), SentenceOf("C")>>,
           <<NewLine, NewLine>>)

LookupDocuments ==
    {[p \in {1} |-> pg] : pg \in {TwoAndOne, TwoSections, ShortFirst}}

\* a reference of an unknown document, one of a sentence no page has, a
\* string that is no reference, and the empty string
UnknownReferences ==
    {<<"d", "o", "c", ":", "u", "n", "k", "n", "o", "w", "n", ":", "p", "1", ".",
       "p", "a", "r", "a", "1", ".", "s", "e", "n", "t", "1">>,
     <<"d", "o", "c", ":", "X", ":", "p", "1", ".", "p", "a", "r", "a", "0", ".",
       "s", "e", "n", "t", "7">>,
     <<"p", "1">>,
     <<>>}

\* the strings a caller may ask for
LookupReferences ==
    UnknownReferences
    \cup {GetReference(added[k], p) : k \in 1..Len(added), p \in {"page", "para", "sent"}}

ContextTypes == {"paragraph", "page"}

\* index.resolve_citation(reference)
ResolveCitationCall(ref) ==
    /\ lookup' = [op |-> "resolve_citation", reference |-> ref,
                  context_type |-> "", served |-> Len(manager),
                  result |-> ResolveCitation(citation_index, ref)]
    /\ UNCHANGED <<citation_index, added, manager, segmented, codecVars, storeVars>>

\* index.get_context(reference, context_type)
GetContextCall(ref, context_type) ==
    /\ lookup' = [op |-> "get_context", reference |-> ref,
                  context_type |-> context_type, served |-> Len(manager),
                  result |-> GetContext(citation_index, ref, context_type)]
    /\ UNCHANGED <<citation_index, added, manager, segmented, codecVars, storeVars>>

(***************************************************************************)
(* The SearchDataStore and its callers.  Each thread runs one call at a    *)
(* time; a step is one statement of the call (one add_segment, one search  *)
(* of an index, the load or the store of an "x += 1").  The store takes no *)
(* lock, so the steps of different threads interleave freely.              *)
(* Wall-clock values (last_updated, the timestamps of a history record and *)
(* of the optimization metrics) are left out: last_updated is the number   *)
(* of times it was assigned.                                               *)
(***************************************************************************)
Threads == {"t1", "t2"}

PdfIds == {"d1", "d2"}

\* the most calls started in a run of the store
MaxCalls == 2

SegA == TextSegment("a", <<"A", " ", "b">>, 1, 0, 0, {"a"}, <<[type |-> "ORG", value |-> "A"]>>)
SegB == TextSegment("b", <<"b", " ", " ", "C">>, 1, 0, 1, {}, <<>>)
\* a segment that shares its id with SegA
SegA2 == TextSegment("a", <<"c">>, 2, 0, 0, {}, <<>>)

IndexInputs == {<<SegA, SegB>>, <<SegA>>, <<SegB>>, <<SegA, SegA2>>}

QueryB == <<"b">>
QueryAC == <<"A", " ", "c">>

Queries == {QueryB, QueryAC}

SearchTypes == {"hybrid", "exact"}

\* a thread that runs no call
IdleThread ==
    [pc |-> "idle", op |-> "", pdf_id |-> "", query |-> <<>>, search_type |-> "",
     text_segments |-> <<>>, cache |-> 0, i |-> 0, results |-> <<>>, tmp |-> 0,
     frequent |-> <<>>,
     \* history: the index a read saw, the rebuilds under way at that read,
     \* the index a rebuild replaced, whether the call replaced an index, and
     \* whether no other rebuild of the same document overlapped the call
     seen |-> EmptyIndex, during |-> {}, old_index |-> EmptyIndex,
     rebuild |-> FALSE, alone |-> TRUE,
     \* history: the document of the call that returned last on this thread,
     \* when that call was optimize_index
     last |-> ""]

\* the thread record with which a call starts
Fresh(t, op) == [IdleThread EXCEPT !.op = op, !.last = th[t].last]

\* PDFSearchCache(pdf_id=pdf_id, semantic_index=SemanticIndex(), last_updated=now)
NewCache(pdf_id) ==
    [pdf_id |-> pdf_id, semantic_index |-> EmptyIndex, last_updated |-> 1,
     access_count |-> 0, search_history |-> <<>>, optimization_metrics |-> EmptyMap]

\* popular_queries[query], 0 for a missing key
QueryCount(pq, query) ==
    IF \E k \in 1..Len(pq) : pq[k].query = query
    THEN pq[CHOOSE k \in 1..Len(pq) : pq[k].query = query].count
    ELSE 0

\* popular_queries[query] = n
SetQueryCount(pq, query, n) ==
    IF \E k \in 1..Len(pq) : pq[k].query = query
    THEN [k \in 1..Len(pq) |-> IF pq[k].query = query THEN [pq[k] EXCEPT !.count = n] ELSE pq[k]]
    ELSE Append(pq, [query |-> query, count |-> n])

\* the threshold of optimize_index: count > 5
FrequentThreshold == 5

\* the other threads that are rebuilding the index of document d
OtherWriters(t, d) ==
    {u \in Threads \ {t} : th[u].pc \in {"cu_add", "cu_done"} /\ th[u].pdf_id = d}

\* th with thread t set to r and the rebuilds that t's write overlaps marked
WithWrite(t, d, r) ==
    [u \in Threads |->
        IF u = t THEN [r EXCEPT !.alone = r.alone /\ OtherWriters(t, d) = {}]
        ELSE IF u \in OtherWriters(t, d) THEN [th[u] EXCEPT !.alone = FALSE]
        ELSE th[u]]

\* the rebuilds of an existing index under way on cache c
RebuildsOf(c) ==
    {u \in Threads : th[u].pc \in {"cu_add", "cu_done"} /\ th[u].cache = c /\ th[u].rebuild}

LoopPc(i, n, body, exit) == IF i > n THEN exit ELSE body

(************************ create_or_update_index ***************************)
CallCreateOrUpdateIndex(t, pdf_id, text_segments, limit) ==
    /\ th[t].pc = "idle"
    /\ calls < limit
    /\ calls' = calls + 1
    /\ th' = [th EXCEPT ![t] = [Fresh(t, "create_or_update_index") EXCEPT
                                   !.pc = "cu_check", !.pdf_id = pdf_id,
                                                  !.text_segments = text_segments]]
    /\ UNCHANGED <<caches, pdf_caches, total_searches, popular_queries, n_search,
                   codecVars, citationVars>>

\* if pdf_id in self.pdf_caches:
CuCheck(t) ==
    /\ th[t].pc = "cu_check"
    /\ th' = [th EXCEPT ![t].pc =
                 IF th[t].pdf_id \in DOMAIN pdf_caches THEN "cu_reset" ELSE "cu_new"]
    /\ UNCHANGED <<caches, pdf_caches, total_searches, popular_queries, calls, n_search,
                   codecVars, citationVars>>

\* the mutant of CuReset: the index is not replaced by a new SemanticIndex
CuResetInPlace(t) ==
    /\ th[t].pc = "cu_reset"
    /\ LET c == pdf_caches[th[t].pdf_id]
       IN  /\ UNCHANGED caches
           /\ th' = WithWrite(t, th[t].pdf_id,
                       [th[t] EXCEPT !.cache = c, !.i = 1, !.rebuild = TRUE,
                                     !.old_index = caches[c].semantic_index,
                                     !.pc = LoopPc(1, Len(th[t].text_segments),
                                                   "cu_add", "cu_done")])
    /\ UNCHANGED <<pdf_caches, total_searches, popular_queries, calls, n_search,
                   codecVars, citationVars>>

\* a variant of CuReset: the registered cache is replaced by a new cache
CuResetNewCache(t) ==
    /\ th[t].pc = "cu_reset"
    /\ LET c == pdf_caches[th[t].pdf_id]
       IN  /\ caches' = [caches EXCEPT ![c] = NewCache(th[t].pdf_id)]
           /\ th' = WithWrite(t, th[t].pdf_id,
                       [th[t] EXCEPT !.cache = c, !.i = 1, !.rebuild = TRUE,
                                     !.old_index = caches[c].semantic_index,
                                     !.pc = LoopPc(1, Len(th[t].text_segments),
                                                   "cu_add", "cu_done")])
    /\ UNCHANGED <<pdf_caches, total_searches, popular_queries, calls, n_search,
                   codecVars, citationVars>>

\* cache = self.pdf_caches[pdf_id]; cache.semantic_index = SemanticIndex()
CuReset(t) ==
    /\ th[t].pc = "cu_reset"
    /\ LET c == pdf_caches[th[t].pdf_id]
       IN  /\ caches' = [caches EXCEPT ![c].semantic_index = EmptyIndex]
           /\ th' = WithWrite(t, th[t].pdf_id,
                       [th[t] EXCEPT !.cache = c, !.i = 1, !.rebuild = TRUE,
                                     !.old_index = caches[c].semantic_index,
                                     !.pc = LoopPc(1, Len(th[t].text_segments),
                                                   "cu_add", "cu_done")])
    /\ UNCHANGED <<pdf_caches, total_searches, popular_queries, calls, n_search,
                   codecVars, citationVars>>

\* cache = PDFSearchCache(...); self.pdf_caches[pdf_id] = cache
CuNew(t) ==
    /\ th[t].pc = "cu_new"
    /\ caches' = Append(caches, NewCache(th[t].pdf_id))
    /\ pdf_caches' = Put(pdf_caches, th[t].pdf_id, Len(caches) + 1)
    /\ th' = WithWrite(t, th[t].pdf_id,
                [th[t] EXCEPT !.cache = Len(caches) + 1, !.i = 1,
                              !.pc = LoopPc(1, Len(th[t].text_segments),
                                            "cu_add", "cu_done")])
    /\ UNCHANGED <<total_searches, popular_queries, calls, n_search,
                   codecVars, citationVars>>

\* for segment in text_segments: cache.semantic_index.add_segment(segment)
CuAdd(t) ==
    /\ th[t].pc = "cu_add"
    /\ caches' = [caches EXCEPT ![th[t].cache].semantic_index =
                     IndexAddSegment(@, th[t].text_segments[th[t].i])]
    /\ th' = WithWrite(t, th[t].pdf_id,
                [th[t] EXCEPT !.i = @ + 1,
                              !.pc = LoopPc(th[t].i + 1, Len(th[t].text_segments),
                                            "cu_add", "cu_done")])
    /\ UNCHANGED <<pdf_caches, total_searches, popular_queries, calls, n_search,
                   codecVars, citationVars>>

\* cache.last_updated = datetime.now(); return cache
CuDone(t) ==
    /\ th[t].pc = "cu_done"
    /\ caches' = [caches EXCEPT ![th[t].cache].last_updated = @ + 1]
    /\ th' = [u \in Threads |->
                 IF u = t THEN [th[t] EXCEPT !.pc = "returned", !.results = <<th[t].cache>>]
                 ELSE [th[u] EXCEPT !.during = @ \ {t}]]
    /\ UNCHANGED <<pdf_caches, total_searches, popular_queries, calls, n_search,
                   codecVars, citationVars>>

(******************************** search ***********************************)
CallSearch(t, pdf_id, query, search_type, limit) ==
    /\ th[t].pc = "idle"
    /\ calls < limit
    /\ calls' = calls + 1
    /\ th' = [th EXCEPT ![t] = [Fresh(t, "search") EXCEPT
                                   !.pc = "s_check", !.pdf_id = pdf_id,
                                                  !.query = query,
                                                  !.search_type = search_type]]
    /\ UNCHANGED <<caches, pdf_caches, total_searches, popular_queries, n_search,
                   codecVars, citationVars>>

\* a variant of SCheck: a search of an unknown document is counted
SCheckCounting(t) ==
    /\ th[t].pc = "s_check"
    /\ IF th[t].pdf_id \in DOMAIN pdf_caches
       THEN /\ th' = [th EXCEPT ![t].cache = pdf_caches[th[t].pdf_id], ![t].pc = "s_exec"]
            /\ n_search' = n_search + 1
            /\ UNCHANGED total_searches
       ELSE /\ th' = [th EXCEPT ![t].pc = "returned", ![t].results = <<>>]
            /\ total_searches' = total_searches + 1
            /\ UNCHANGED n_search
    /\ UNCHANGED <<caches, pdf_caches, popular_queries, calls,
                   codecVars, citationVars>>

\* if pdf_id not in self.pdf_caches: return []; cache = self.pdf_caches[pdf_id]
SCheck(t) ==
    /\ th[t].pc = "s_check"
    /\ IF th[t].pdf_id \in DOMAIN pdf_caches
       THEN /\ th' = [th EXCEPT ![t].cache = pdf_caches[th[t].pdf_id], ![t].pc = "s_exec"]
            /\ n_search' = n_search + 1
       ELSE /\ th' = [th EXCEPT ![t].pc = "returned", ![t].results = <<>>]
            /\ UNCHANGED n_search
    /\ UNCHANGED <<caches, pdf_caches, total_searches, popular_queries, calls,
                   codecVars, citationVars>>

\* results = cache.semantic_index.deterministic_search(query, search_type)
SExec(t) ==
    /\ th[t].pc = "s_exec"
    /\ LET idx == caches[th[t].cache].semantic_index
       IN  th' = [th EXCEPT ![t].results = DeterministicSearch(idx, th[t].query,
                                                               th[t].search_type),
                            ![t].seen = idx,
                            ![t].during = RebuildsOf(th[t].cache),
                            ![t].pc = "s_count_load"]
    /\ UNCHANGED <<caches, pdf_caches, total_searches, popular_queries, calls, n_search,
                   codecVars, citationVars>>

\* record_search: self.access_count += 1 (the load)
SCountLoad(t) ==
    /\ th[t].pc = "s_count_load"
    /\ th' = [th EXCEPT ![t].tmp = caches[th[t].cache].access_count,
                        ![t].pc = "s_count_store"]
    /\ UNCHANGED <<caches, pdf_caches, total_searches, popular_queries, calls, n_search,
                   codecVars, citationVars>>

\* record_search: self.access_count += 1 (the store); self.search_history.append(...)
SCountStore(t) ==
    /\ th[t].pc = "s_count_store"
    /\ caches' = [caches EXCEPT
                     ![th[t].cache].access_count = th[t].tmp + 1,
                     ![th[t].cache].search_history =
                         Append(@, [query |-> th[t].query, type |-> th[t].search_type,
                                    results |-> Len(th[t].results)])]
    /\ th' = [th EXCEPT ![t].pc = "s_total_load"]
    /\ UNCHANGED <<pdf_caches, total_searches, popular_queries, calls, n_search,
                   codecVars, citationVars>>

\* self.global_metrics['total_searches'] += 1 (the load)
STotalLoad(t) ==
    /\ th[t].pc = "s_total_load"
    /\ th' = [th EXCEPT ![t].tmp = total_searches, ![t].pc = "s_total_store"]
    /\ UNCHANGED <<caches, pdf_caches, total_searches, popular_queries, calls, n_search,
                   codecVars, citationVars>>

\* a variant of STotalStore: the loaded value is stored back unchanged
STotalStoreSame(t) ==
    /\ th[t].pc = "s_total_store"
    /\ total_searches' = th[t].tmp
    /\ th' = [th EXCEPT ![t].pc = "s_popular_load"]
    /\ UNCHANGED <<caches, pdf_caches, popular_queries, calls, n_search,
                   codecVars, citationVars>>

\* self.global_metrics['total_searches'] += 1 (the store)
STotalStore(t) ==
    /\ th[t].pc = "s_total_store"
    /\ total_searches' = th[t].tmp + 1
    /\ th' = [th EXCEPT ![t].pc = "s_popular_load"]
    /\ UNCHANGED <<caches, pdf_caches, popular_queries, calls, n_search,
                   codecVars, citationVars>>

\* self.global_metrics['popular_queries'][query] += 1 (the load; the
\* defaultdict inserts a missing query with 0)
SPopularLoad(t) ==
    /\ th[t].pc = "s_popular_load"
    /\ popular_queries' = SetQueryCount(popular_queries, th[t].query,
                                        QueryCount(popular_queries, th[t].query))
    /\ th' = [th EXCEPT ![t].tmp = QueryCount(popular_queries, th[t].query),
                        ![t].pc = "s_popular_store"]
    /\ UNCHANGED <<caches, pdf_caches, total_searches, calls, n_search,
                   codecVars, citationVars>>

\* self.global_metrics['popular_queries'][query] += 1 (the store); return results
SPopularStore(t) ==
    /\ th[t].pc = "s_popular_store"
    /\ popular_queries' = SetQueryCount(popular_queries, th[t].query, th[t].tmp + 1)
    /\ th' = [th EXCEPT ![t].pc = "returned"]
    /\ UNCHANGED <<caches, pdf_caches, total_searches, calls, n_search,
                   codecVars, citationVars>>

(**************************** optimize_index *******************************)
CallOptimizeIndex(t, pdf_id, limit) ==
    /\ th[t].pc = "idle"
    /\ calls < limit
    /\ calls' = calls + 1
    /\ th' = [th EXCEPT ![t] = [Fresh(t, "optimize_index") EXCEPT
                                   !.pc = "o_check", !.pdf_id = pdf_id]]
    /\ UNCHANGED <<caches, pdf_caches, total_searches, popular_queries, n_search,
                   codecVars, citationVars>>

\* if pdf_id not in self.pdf_caches: return; cache = self.pdf_caches[pdf_id]
OCheck(t) ==
    /\ th[t].pc = "o_check"
    /\ th' = IF th[t].pdf_id \in DOMAIN pdf_caches
             THEN [th EXCEPT ![t].cache = pdf_caches[th[t].pdf_id],
                             ![t].old_index = caches[pdf_caches[th[t].pdf_id]].semantic_index,
                             ![t].pc = "o_frequent"]
             ELSE [th EXCEPT ![t].pc = "returned", ![t].results = <<>>]
    /\ UNCHANGED <<caches, pdf_caches, total_searches, popular_queries, calls, n_search,
                   codecVars, citationVars>>

\* [q for q, count in popular_queries.items() if count > 5]
FrequentQueries(pq) ==
    LET hot == SelectSeq(pq, LAMBDA e : e.count > FrequentThreshold)
    IN  [k \in 1..Len(hot) |-> hot[k].query]

OFrequent(t) ==
    /\ th[t].pc = "o_frequent"
    /\ th' = [th EXCEPT ![t].frequent = FrequentQueries(popular_queries),
                        ![t].i = 1,
                        ![t].pc = LoopPc(1, Len(FrequentQueries(popular_queries)),
                                         "o_query", "o_done")]
    /\ UNCHANGED <<caches, pdf_caches, total_searches, popular_queries, calls, n_search,
                   codecVars, citationVars>>

\* results = cache.semantic_index.deterministic_search(query, "hybrid")
OQuery(t) ==
    /\ th[t].pc = "o_query"
    /\ LET idx == caches[th[t].cache].semantic_index
       IN  th' = [th EXCEPT ![t].results = DeterministicSearch(idx, th[t].frequent[th[t].i],
                                                               "hybrid"),
                            ![t].seen = idx,
                            ![t].during = RebuildsOf(th[t].cache),
                            ![t].pc = "o_edges"]
    /\ UNCHANGED <<caches, pdf_caches, total_searches, popular_queries, calls, n_search,
                   codecVars, citationVars>>

Min(a, b) == IF a < b THEN a ELSE b

\* for i, segment in enumerate(results[:5]):
\*     for j, other_segment in enumerate(results[i+1:i+6]):
\*         proximity_graph[segment.id].append((other_segment.id, similarity))
\* from the pair (i, j) on, with 1-based positions
RECURSIVE AppendEdges(_, _, _, _)
AppendEdges(graph, results, i, j) ==
    IF i > Min(5, Len(results)) THEN graph
    ELSE IF j > Min(i + 5, Len(results)) THEN AppendEdges(graph, results, i + 1, i + 2)
    ELSE AppendEdges(
             Put(graph, results[i].id,
                 Append(Get(graph, results[i].id, <<>>),
                        <<results[j].id, CalculateSimilarity(results[i], results[j])>>)),
             results, i, j + 1)

\* the edges of one frequent query are appended to the index the cache holds now
OEdges(t) ==
    /\ th[t].pc = "o_edges"
    /\ caches' = [caches EXCEPT ![th[t].cache].semantic_index.proximity_graph =
                     AppendEdges(@, th[t].results, 1, 2)]
    /\ th' = [th EXCEPT ![t].i = @ + 1,
                        ![t].pc = LoopPc(th[t].i + 1, Len(th[t].frequent),
                                         "o_query", "o_done")]
    /\ UNCHANGED <<pdf_caches, total_searches, popular_queries, calls, n_search,
                   codecVars, citationVars>>

\* cache.optimization_metrics['indexed_queries'] = len(frequent_queries); return
ODone(t) ==
    /\ th[t].pc = "o_done"
    /\ caches' = [caches EXCEPT ![th[t].cache].optimization_metrics =
                     Put(@, "indexed_queries", Len(th[t].frequent))]
    /\ th' = [th EXCEPT ![t].pc = "returned", ![t].results = <<>>]
    /\ UNCHANGED <<pdf_caches, total_searches, popular_queries, calls, n_search,
                   codecVars, citationVars>>

(************************* get_search_suggestions **************************)
\* the characters of the model in the order of their code points
CodeOrder == <<NewLine, " ", ".">> \o Digits \o UpperCase \o LowerCase

CodeOf(c) == CHOOSE i \in 1..Len(CodeOrder) : CodeOrder[i] = c

\* a < b for two Python strings
StrLess(a, b) ==
    \/ Len(a) < Len(b) /\ \A k \in 1..Len(a) : a[k] = b[k]
    \/ \E k \in 1..Len(a) :
           /\ k <= Len(b)
           /\ \A j \in 1..(k - 1) : a[j] = b[j]
           /\ CodeOf(a[k]) < CodeOf(b[k])

\* sorted(strings)
RECURSIVE SortStrings(_)
SortStrings(S) ==
    IF S = {} THEN <<>>
    ELSE LET m == CHOOSE x \in S : \A y \in S \ {x} : StrLess(x, y)
         IN  <<m>> \o SortStrings(S \ {m})

\* sorted(suggestions)[:10]
MaxSuggestions == 10

Partials == {<<>>, <<"B">>}

CallGetSearchSuggestions(t, pdf_id, partial_query, limit) ==
    /\ th[t].pc = "idle"
    /\ calls < limit
    /\ calls' = calls + 1
    /\ th' = [th EXCEPT ![t] = [Fresh(t, "get_search_suggestions") EXCEPT
                                   !.pc = "gs_check", !.pdf_id = pdf_id,
                                   !.query = partial_query]]
    /\ UNCHANGED <<caches, pdf_caches, total_searches, popular_queries, n_search,
                   codecVars, citationVars>>

\* if pdf_id not in self.pdf_caches: return []; cache = self.pdf_caches[pdf_id]
GsCheck(t) ==
    /\ th[t].pc = "gs_check"
    /\ th' = IF th[t].pdf_id \in DOMAIN pdf_caches
             THEN [th EXCEPT ![t].cache = pdf_caches[th[t].pdf_id], ![t].pc = "gs_exec"]
             ELSE [th EXCEPT ![t].pc = "returned", ![t].results = <<>>]
    /\ UNCHANGED <<caches, pdf_caches, total_searches, popular_queries, calls, n_search,
                   codecVars, citationVars>>

\* the words of the inverted index that start with partial_query.lower(),
\* sorted, the first 10
Suggestions(idx, partial_query) ==
    LET sorted == SortStrings({w \in DOMAIN idx.inverted_index :
                                  IsPrefix(Lower(partial_query), w)})
    IN  SubSeq(sorted, 1, IF Len(sorted) < MaxSuggestions THEN Len(sorted)
                          ELSE MaxSuggestions)

GsExec(t) ==
    /\ th[t].pc = "gs_exec"
    /\ LET idx == caches[th[t].cache].semantic_index
       IN  th' = [th EXCEPT ![t].results = Suggestions(idx, th[t].query),
                            ![t].seen = idx,
                            ![t].during = RebuildsOf(th[t].cache),
                            ![t].pc = "returned"]
    /\ UNCHANGED <<caches, pdf_caches, total_searches, popular_queries, calls, n_search,
                   codecVars, citationVars>>

(*************************** get_navigation_map ****************************)
CallGetNavigationMap(t, pdf_id, limit) ==
    /\ th[t].pc = "idle"
    /\ calls < limit
    /\ calls' = calls + 1
    /\ th' = [th EXCEPT ![t] = [Fresh(t, "get_navigation_map") EXCEPT
                                   !.pc = "nm_check", !.pdf_id = pdf_id]]
    /\ UNCHANGED <<caches, pdf_caches, total_searches, popular_queries, n_search,
                   codecVars, citationVars>>

\* if pdf_id not in self.pdf_caches: return {}; cache = self.pdf_caches[pdf_id]
NmCheck(t) ==
    /\ th[t].pc = "nm_check"
    /\ th' = IF th[t].pdf_id \in DOMAIN pdf_caches
             THEN [th EXCEPT ![t].cache = pdf_caches[th[t].pdf_id], ![t].pc = "nm_exec"]
             ELSE [th EXCEPT ![t].pc = "returned", ![t].results = EmptyMap]
    /\ UNCHANGED <<caches, pdf_caches, total_searches, popular_queries, calls, n_search,
                   codecVars, citationVars>>

\* segment.content[:50] + '...' if len(segment.content) > 50 else segment.content
PreviewLength == 50

Preview(content) ==
    IF Len(content) > PreviewLength
    THEN SubSeq(content, 1, PreviewLength) \o <<".", ".", ".">>
    ELSE content

\* nav_map[page][paragraph]: one entry per segment of the index; the entries
\* of a paragraph are kept as a set, the index of the model not recording the
\* order in which its segments were inserted
NavigationMap(idx) ==
    LET segs == {idx.segments[id] : id \in DOMAIN idx.segments}
        entry(seg) == [sentence |-> seg.sentence, preview |-> Preview(seg.content),
                       entities |-> seg.entities, keywords |-> seg.keywords]
    IN  [page \in {seg.page : seg \in segs} |->
            [paragraph \in {seg.paragraph : seg \in {x \in segs : x.page = page}} |->
                {entry(seg) : seg \in {x \in segs : x.page = page
                                                    /\ x.paragraph = paragraph}}]]

NmExec(t) ==
    /\ th[t].pc = "nm_exec"
    /\ LET idx == caches[th[t].cache].semantic_index
       IN  th' = [th EXCEPT ![t].results = NavigationMap(idx),
                            ![t].seen = idx,
                            ![t].during = RebuildsOf(th[t].cache),
                            ![t].pc = "returned"]
    /\ UNCHANGED <<caches, pdf_caches, total_searches, popular_queries, calls, n_search,
                   codecVars, citationVars>>

\* the caller takes the value a call returned
Return(t) ==
    /\ th[t].pc = "returned"
    /\ th' = [th EXCEPT ![t] = [IdleThread EXCEPT
                                   !.last = IF th[t].op = "optimize_index"
                                            THEN th[t].pdf_id ELSE ""]]
    /\ UNCHANGED <<caches, pdf_caches, total_searches, popular_queries, calls, n_search,
                   codecVars, citationVars>>

(********************** ProximityGraphBuilderNode **************************)
\* 1.0 / (1 + distance * 0.2), times 1.5 when the two segments have a keyword
\* in common; the float is kept as an exact fraction
ProximityScore(distance, common) ==
    IF common THEN Fraction(15, 2 * (5 + distance)) ELSE Fraction(5, 5 + distance)

\* x <= y for two fractions
FractionLeq(x, y) == x[1] * y[2] <= y[1] * x[2]

\* the (other_seg.id, proximity_score) pairs of the segment at position i
\* (from 1) of the list, for j from position j on
RECURSIVE NearbySegments(_, _, _)
NearbySegments(segments, i, j) ==
    LET Abs(x) == IF x < 0 THEN 0 - x ELSE x
    IN  IF j > Min(Len(segments), i + 5) THEN <<>>
        ELSE IF j # i /\ Abs(segments[i].page - segments[j].page) <= 1
        THEN <<<<segments[j].id,
                 ProximityScore(Abs(j - i),
                                segments[i].keywords \cap segments[j].keywords # {})>>>>
             \o NearbySegments(segments, i, j + 1)
        ELSE NearbySegments(segments, i, j + 1)

\* nearby_segments.sort(key=lambda x: x[1], reverse=True): a stable sort
RECURSIVE SortByScore(_)
SortByScore(edges) ==
    IF Len(edges) = 0 THEN <<>>
    ELSE LET k == CHOOSE k \in 1..Len(edges) :
                      /\ \A j \in 1..Len(edges) : FractionLeq(edges[j][2], edges[k][2])
                      /\ \A j \in 1..(k - 1) : edges[j][2] # edges[k][2]
         IN  <<edges[k]>>
             \o SortByScore(SubSeq(edges, 1, k - 1) \o SubSeq(edges, k + 1, Len(edges)))

\* the loop of exec_async from the segment at position i (from 1) on: every
\* cache whose index has the segment's id gets the first 5 sorted pairs
RECURSIVE BuilderLoop(_, _, _)
BuilderLoop(cs, segments, i) ==
    IF i > Len(segments) THEN cs
    ELSE LET sorted == SortByScore(NearbySegments(segments, i, IF i > 5 THEN i - 5 ELSE 1))
             nearby == SubSeq(sorted, 1, Min(5, Len(sorted)))
         IN  BuilderLoop(
                 [c \in 1..Len(cs) |->
                     IF /\ \E d \in DOMAIN pdf_caches : pdf_caches[d] = c
                        /\ segments[i].id \in DOMAIN cs[c].semantic_index.segments
                     THEN [cs[c] EXCEPT !.semantic_index.proximity_graph =
                              Put(@, segments[i].id, nearby)]
                     ELSE cs[c]],
                 segments, i + 1)

\* the segments held by the indexes of the registered caches, from which
\* IndexOptimizationFlow.prep_async collects the builder's input
StoredSegments ==
    UNION {{caches[pdf_caches[d]].semantic_index.segments[id] :
               id \in DOMAIN caches[pdf_caches[d]].semantic_index.segments} :
           d \in DOMAIN pdf_caches}

\* ProximityGraphBuilderNode.exec_async on segments taken from the store: a
\* coroutine that never awaits
ProximityGraphBuilder(t, segments, limit) ==
    /\ th[t].pc = "idle"
    /\ calls < limit
    /\ calls' = calls + 1
    /\ Len(segments) > 0
    /\ Range(segments) \subseteq StoredSegments
    /\ caches' = BuilderLoop(caches, segments, 1)
    /\ th' = [th EXCEPT ![t].last = ""]
    /\ UNCHANGED <<pdf_caches, total_searches, popular_queries, n_search,
                   codecVars, citationVars>>

\* one statement of the call thread t is executing
Step(t) ==
    \/ CuCheck(t) \/ CuReset(t) \/ CuNew(t) \/ CuAdd(t) \/ CuDone(t)
    \/ SCheck(t) \/ SExec(t) \/ SCountLoad(t) \/ SCountStore(t)
    \/ STotalLoad(t) \/ STotalStore(t) \/ SPopularLoad(t) \/ SPopularStore(t)
    \/ OCheck(t) \/ OFrequent(t) \/ OQuery(t) \/ OEdges(t) \/ ODone(t)
    \/ Return(t)

\* one statement of a read-only query that thread t is executing
QueryStep(t) == GsCheck(t) \/ GsExec(t) \/ NmCheck(t) \/ NmExec(t)

(***************************************************************************)
(* Specifications.  Each fixes the state of the components it does not run.*)
(***************************************************************************)
\* the codec is given an address; the CitationIndex is not used
InitCodec ==
    /\ address \in Addresses
    /\ precision = "sent"
    /\ reference = <<>>
    /\ decoded = NoResult
    /\ origin = "none"
    /\ codec_pc = "start"
    /\ citation_index = EmptyCitationIndex
    /\ added = <<>>
    /\ manager = <<>>
    /\ segmented = <<>>
    /\ lookup = NoLookup
    /\ caches = <<>>
    /\ pdf_caches = EmptyMap
    /\ total_searches = 0
    /\ popular_queries = <<>>
    /\ th = [t \in Threads |-> IdleThread]
    /\ calls = 0
    /\ n_search = 0

NextCodec ==
    \/ \E p \in SegmentTypes : Encode(p)
    \/ \E r \in RawReferences : Give(r)
    \/ Decode

SpecCodec == InitCodec /\ [][NextCodec]_vars

\* CitationIndex.__init__; the codec is not used
InitCitation ==
    /\ citation_index = EmptyCitationIndex
    /\ added = <<>>
    /\ manager = <<>>
    /\ segmented = <<>>
    /\ lookup = NoLookup
    /\ address = DefaultAddress(<<>>)
    /\ precision = "sent"
    /\ reference = <<>>
    /\ decoded = NoResult
    /\ origin = "none"
    /\ codec_pc = "off"
    /\ caches = <<>>
    /\ pdf_caches = EmptyMap
    /\ total_searches = 0
    /\ popular_queries = <<>>
    /\ th = [t \in Threads |-> IdleThread]
    /\ calls = 0
    /\ n_search = 0

NextCitation == \E segs \in SegmentLists : CitAddSegments(segs)

SpecCitation == InitCitation /\ [][NextCitation]_vars

\* a CitationManager that has processed no document
InitManager ==
    /\ citation_index = EmptyCitationIndex
    /\ added = <<>>
    /\ manager = <<>>
    /\ segmented = <<>>
    /\ lookup = NoLookup
    /\ address = DefaultAddress(<<>>)
    /\ precision = "sent"
    /\ reference = <<>>
    /\ decoded = NoResult
    /\ origin = "none"
    /\ codec_pc = "off"
    /\ caches = <<>>
    /\ pdf_caches = EmptyMap
    /\ total_searches = 0
    /\ popular_queries = <<>>
    /\ th = [t \in Threads |-> IdleThread]
    /\ calls = 0
    /\ n_search = 0

NextManager == \E d \in DocIds, source \in Documents : ProcessDocument(d, source)

SpecManager == InitManager /\ [][NextManager]_vars

\* a CitationManager that has processed no document and whose index has not
\* been asked yet
InitLookup ==
    /\ citation_index = EmptyCitationIndex
    /\ added = <<>>
    /\ manager = <<>>
    /\ segmented = <<>>
    /\ lookup = NoLookup
    /\ address = DefaultAddress(<<>>)
    /\ precision = "sent"
    /\ reference = <<>>
    /\ decoded = NoResult
    /\ origin = "none"
    /\ codec_pc = "off"
    /\ caches = <<>>
    /\ pdf_caches = EmptyMap
    /\ total_searches = 0
    /\ popular_queries = <<>>
    /\ th = [t \in Threads |-> IdleThread]
    /\ calls = 0
    /\ n_search = 0

NextLookup ==
    \/ \E source \in LookupDocuments : ProcessDocument(<<"X">>, source)
    \/ \E r \in LookupReferences : ResolveCitationCall(r)
    \/ \E r \in LookupReferences, c \in ContextTypes : GetContextCall(r, c)

SpecLookup == InitLookup /\ [][NextLookup]_vars

\* a DeterministicSegmenter that has served no call
InitSegmenter ==
    /\ citation_index = EmptyCitationIndex
    /\ added = <<>>
    /\ manager = <<>>
    /\ segmented = <<>>
    /\ lookup = NoLookup
    /\ address = DefaultAddress(<<>>)
    /\ precision = "sent"
    /\ reference = <<>>
    /\ decoded = NoResult
    /\ origin = "none"
    /\ codec_pc = "off"
    /\ caches = <<>>
    /\ pdf_caches = EmptyMap
    /\ total_searches = 0
    /\ popular_queries = <<>>
    /\ th = [t \in Threads |-> IdleThread]
    /\ calls = 0
    /\ n_search = 0

NextSegmenter == \E d \in DocIds, source \in PageDicts : SegmentDocumentCall(d, source)

SpecSegmenter == InitSegmenter /\ [][NextSegmenter]_vars

\* the records of n searches of one query that each found `results` segments
Repeat(x, n) == [k \in 1..n |-> x]

\* the store after create_or_update_index("d1", [SegA, SegB]) and enough
\* hybrid searches of QueryB on d1 to make QueryB a frequent query, all run
\* one after the other
InitStore ==
    /\ caches = << [NewCache("d1") EXCEPT
                       !.semantic_index = BuildIndex(<<SegA, SegB>>),
                       !.last_updated = 2,
                       !.access_count = FrequentThreshold + 1,
                       !.search_history =
                           Repeat([query |-> QueryB, type |-> "hybrid",
                                   results |-> Len(HybridSearch(BuildIndex(<<SegA, SegB>>),
                                                                QueryB))],
                                  FrequentThreshold + 1)] >>
    /\ pdf_caches = Put(EmptyMap, "d1", 1)
    /\ total_searches = FrequentThreshold + 1
    /\ popular_queries = <<[query |-> QueryB, count |-> FrequentThreshold + 1]>>
    /\ th = [t \in Threads |-> IdleThread]
    /\ calls = 0
    /\ n_search = FrequentThreshold + 1
    /\ citation_index = EmptyCitationIndex
    /\ added = <<>>
    /\ manager = <<>>
    /\ segmented = <<>>
    /\ lookup = NoLookup
    /\ address = DefaultAddress(<<>>)
    /\ precision = "sent"
    /\ reference = <<>>
    /\ decoded = NoResult
    /\ origin = "none"
    /\ codec_pc = "off"

Next ==
    \E t \in Threads :
        \/ \E d \in PdfIds, segs \in IndexInputs : CallCreateOrUpdateIndex(t, d, segs, MaxCalls)
        \/ \E d \in PdfIds, q \in Queries, ty \in SearchTypes : CallSearch(t, d, q, ty, MaxCalls)
        \/ \E d \in PdfIds : CallOptimizeIndex(t, d, MaxCalls)
        \/ Step(t)

Spec == InitStore /\ [][Next]_vars


\* the most calls made in a run of SpecSequential
MaxSequentialCalls == 2

\* two segments longer than the proximity window: in SegNear "a" and "b" are
\* MaxDistance words apart, in SegFar one word more
SegNear ==
    TextSegment("n", <<"a">> \o Join(Repeat(<<" ", "c">>, MaxDistance - 1), <<>>) \o <<" ", "b">>,
                1, 1, 0, {"a"}, <<>>)
SegFar ==
    TextSegment("f", <<"b">> \o Join(Repeat(<<" ", "c">>, MaxDistance), <<>>) \o <<" ", "a">>,
                1, 1, 1, {}, <<>>)

SequentialInputs == IndexInputs \cup {<<SegA, SegNear, SegFar>>}

QueryAB == <<"A", " ", "b">>

SequentialQueries == Queries \cup {QueryAB}

SequentialSearchTypes == {"exact", "proximity", "hybrid"}

\* one caller makes one call after the other on the store of InitStore
NextSequential ==
    \/ \E d \in PdfIds, segs \in SequentialInputs :
           CallCreateOrUpdateIndex("t1", d, segs, MaxSequentialCalls)
    \/ \E d \in PdfIds, q \in SequentialQueries, ty \in SequentialSearchTypes :
           CallSearch("t1", d, q, ty, MaxSequentialCalls)
    \/ \E d \in PdfIds : CallOptimizeIndex("t1", d, MaxSequentialCalls)
    \/ \E d \in PdfIds, partial \in Partials :
           CallGetSearchSuggestions("t1", d, partial, MaxSequentialCalls)
    \/ \E d \in PdfIds : CallGetNavigationMap("t1", d, MaxSequentialCalls)
    \/ \E segs \in SequentialInputs : ProximityGraphBuilder("t1", segs, MaxSequentialCalls)
    \/ Step("t1")
    \/ QueryStep("t1")

SpecSequential == InitStore /\ [][NextSequential]_vars

\* the searches already recorded on d1 when a run of SpecHistory starts
RecordedSearches == 999

\* the most searches made in a run of SpecHistory
MaxHistoryCalls == 3

\* the store after create_or_update_index("d1", [SegA, SegB]) and
\* RecordedSearches hybrid searches of QueryB on d1, run one after the other
InitHistory ==
    /\ caches = << [NewCache("d1") EXCEPT
                       !.semantic_index = BuildIndex(<<SegA, SegB>>),
                       !.last_updated = 2,
                       !.access_count = RecordedSearches,
                       !.search_history =
                           Repeat([query |-> QueryB, type |-> "hybrid",
                                   results |-> Len(HybridSearch(BuildIndex(<<SegA, SegB>>),
                                                                QueryB))],
                                  RecordedSearches)] >>
    /\ pdf_caches = Put(EmptyMap, "d1", 1)
    /\ total_searches = RecordedSearches
    /\ popular_queries = <<[query |-> QueryB, count |-> RecordedSearches]>>
    /\ th = [t \in Threads |-> IdleThread]
    /\ calls = 0
    /\ n_search = RecordedSearches
    /\ citation_index = EmptyCitationIndex
    /\ added = <<>>
    /\ manager = <<>>
    /\ segmented = <<>>
    /\ lookup = NoLookup
    /\ address = DefaultAddress(<<>>)
    /\ precision = "sent"
    /\ reference = <<>>
    /\ decoded = NoResult
    /\ origin = "none"
    /\ codec_pc = "off"

\* one caller searches d1 again and again, each call run to its end
NextHistory ==
    \/ \E q \in Queries, ty \in SearchTypes : CallSearch("t1", "d1", q, ty, MaxHistoryCalls)
    \/ SCheck("t1") \/ SExec("t1") \/ SCountLoad("t1") \/ SCountStore("t1")
    \/ STotalLoad("t1") \/ STotalStore("t1") \/ SPopularLoad("t1") \/ SPopularStore("t1")
    \/ Return("t1")

SpecHistory == InitHistory /\ [][NextHistory]_vars

(***************************************************************************)
(* Claims about the SearchDataStore (Spec, SpecHistory).                   *)
(***************************************************************************)
\* what a reader can tell of an index: every map but the proximity graph
Content(idx) ==
    <<idx.segments, idx.inverted_index, idx.position_index, idx.entity_index>>

\* C1: a reader (search, optimize_index) that read the index of a document
\* while a rebuild of that already indexed document was under way saw either
\* the whole index the rebuild replaced or the whole index of the rebuild's
\* segments.
C1_ReaderSeesWholeIndex ==
    \A t \in Threads :
        th[t].pc \in {"s_count_load", "o_edges"} =>
            \A w \in th[t].during :
                th[w].alone =>
                    Content(th[t].seen) \in {Content(th[w].old_index),
                                             Content(BuildIndex(th[w].text_segments))}

RECURSIVE SumCounts(_)
SumCounts(pq) == IF Len(pq) = 0 THEN 0 ELSE Head(pq).count + SumCounts(Tail(pq))

\* C2: once every call has returned, no increment is lost: total_searches
\* and the counts of popular_queries add up to the number of searches that
\* recorded themselves, and the access_count of every cache is the number of
\* records of its search_history.
C2_NoLostUpdate ==
    (\A t \in Threads : th[t].pc = "idle") =>
        /\ total_searches = n_search
        /\ SumCounts(popular_queries) = n_search
        /\ \A c \in 1..Len(caches) :
               caches[c].access_count = Len(caches[c].search_history)

\* the ids of the segments in a list
IdsOf(segs) == {segs[k].id : k \in 1..Len(segs)}

\* the segment ids an index refers to outside its proximity graph
ReferredIds(idx) ==
    (DOMAIN idx.segments)
        \cup UNION {idx.inverted_index[w] : w \in DOMAIN idx.inverted_index}
        \cup {idx.position_index[k] : k \in DOMAIN idx.position_index}
        \cup UNION {idx.entity_index[e] : e \in DOMAIN idx.entity_index}

\* C3: when a rebuild of an already indexed document that no other rebuild
\* of the document overlaps has added its last segment, the segments, the
\* inverted_index, the position_index and the entity_index of the document
\* refer to segments of the given list only, and the keys of inverted_index
\* are the words of the given list: no posting of a removed segment is left.
C3_RebuildDropsStalePostings ==
    \A t \in Threads :
        (th[t].pc = "cu_done" /\ th[t].rebuild /\ th[t].alone) =>
            LET idx == caches[th[t].cache].semantic_index
            IN  /\ ReferredIds(idx) \subseteq IdsOf(th[t].text_segments)
                /\ DOMAIN idx.inverted_index
                       = DOMAIN BuildIndex(th[t].text_segments).inverted_index

\* a rebuild with a strict subset of the indexed segments has added its last
\* segment, and a term of the replaced index occurred in removed segments only
C3_Witness ==
    \E t \in Threads :
        /\ th[t].pc = "cu_done" /\ th[t].rebuild /\ th[t].alone
        /\ IdsOf(th[t].text_segments) # DOMAIN th[t].old_index.segments
        /\ IdsOf(th[t].text_segments) \subseteq DOMAIN th[t].old_index.segments
        /\ \E w \in DOMAIN th[t].old_index.inverted_index :
               /\ th[t].old_index.inverted_index[w] \cap IdsOf(th[t].text_segments) = {}
               /\ w \notin DOMAIN caches[th[t].cache].semantic_index.inverted_index

\* C4: the search_history of a cache never holds more than 1000 records.
C4_HistoryCapped ==
    \A c \in 1..Len(caches) : Len(caches[c].search_history) <= 1000

(***************************************************************************)
(* Claims about the address codec (SpecCodec).                             *)
(***************************************************************************)
\* C5: round trip: decoding the reference of an address encoded at
\* character precision succeeds and returns that address, field for field.
C5_RoundTrip ==
    (codec_pc = "decoded" /\ origin = "encode" /\ precision = "char")
        => (decoded.ok /\ decoded.addr = address)

\* the pieces of a reference string: the text before the first ":", the
\* document id, and the dot-separated location components
RefParts(r) == Split(r, ":")
LocationParts(r) == Split(RefParts(r)[3], ".")
IsPageToken(c) == StartsWith(c, <<"p">>) /\ AllDigits(DropFirst(c, 1))

\* the reference starts with doc: and holds a document id and a page token
WellFormedHead(r) ==
    /\ Len(RefParts(r)) >= 3
    /\ RefParts(r)[1] = <<"d", "o", "c">>
    /\ RefParts(r)[2] # <<>>
    /\ IsPageToken(LocationParts(r)[1])

\* C6: decoding a string that does not start with doc:, or that lacks a
\* document id or a page token, fails and returns no address.
C6_MalformedRejected ==
    (codec_pc = "decoded" /\ ~WellFormedHead(reference)) => ~decoded.ok

\* the components after the page token that carry the prefix name and a number
Components(r, name) ==
    SelectSeq(Tail(LocationParts(r)),
              LAMBDA c : StartsWith(c, name) /\ AllDigits(DropFirst(c, Len(name))))

\* the value the claim gives a numeric field: that of its (last) component,
\* 0 without one
FieldOf(r, name) ==
    LET cs == Components(r, name)
    IN  IF Len(cs) = 0 THEN 0 ELSE NatVal(DropFirst(cs[Len(cs)], Len(name)))

\* C7: a reference with a valid doc:{id}:p{page} head decodes whatever
\* components follow; page, paragraph, sentence and phrase are those of their
\* own components (0 without one) and section is absent without a component.
C7_LenientComponents ==
    (codec_pc = "decoded" /\ WellFormedHead(reference)) =>
        /\ decoded.ok
        /\ decoded.addr.document_id = RefParts(reference)[2]
        /\ decoded.addr.page = NatVal(DropFirst(LocationParts(reference)[1], 1))
        /\ decoded.addr.paragraph = FieldOf(reference, <<"p", "a", "r", "a">>)
        /\ decoded.addr.sentence = FieldOf(reference, <<"s", "e", "n", "t">>)
        /\ decoded.addr.phrase = FieldOf(reference, <<"p", "h", "r", "a", "s", "e">>)
        /\ (Len(Components(reference, <<"s", "e", "c">>)) = 0 => decoded.addr.section = <<>>)

\* the leading letters of a location component: its prefix name
RECURSIVE LeadingLetters(_)
LeadingLetters(c) ==
    IF Len(c) = 0 \/ IsDigit(c[1]) \/ c[1] = "-" THEN <<>>
    ELSE <<c[1]>> \o LeadingLetters(Tail(c))

ComponentNames(r) ==
    [i \in 1..Len(LocationParts(r)) |-> LeadingLetters(LocationParts(r)[i])]

ComponentOrder ==
    << <<"s", "e", "c">>, <<"p", "a", "r", "a">>, <<"s", "e", "n", "t">>,
       <<"p", "h", "r", "a", "s", "e">>, <<"c", "h", "a", "r">> >>

\* the coarsest precision (its rank) at which each component is emitted
ComponentRank == <<3, 4, 5, 6, 8>>

\* C8: an encoded reference is doc:{id}:p{page} followed by exactly the
\* components whose granularity the precision reaches (sec only when the
\* section is present), in the order sec, para, sent, phrase, char; and the
\* encoding at every coarser precision is a prefix of it.
C8_EncodeOrderedPrefix ==
    codec_pc = "encoded" =>
        /\ ComponentNames(reference) =
              <<<<"p">>>> \o
              SelectSeq(ComponentOrder,
                        LAMBDA n : \E i \in 1..5 :
                            /\ ComponentOrder[i] = n
                            /\ Rank(precision) >= ComponentRank[i]
                            /\ (i = 1 => address.section # <<>>))
        /\ \A q \in SegmentTypes :
              Rank(q) <= Rank(precision) => IsPrefix(ToReference(address, q), reference)

\* an address with a section and a two-digit page, encoded at word precision
C8_Witness ==
    /\ codec_pc = "encoded"
    /\ precision = "word"
    /\ address.section # <<>>
    /\ address.page = MaxNum

(***************************************************************************)
(* Claims about the CitationIndex (SpecCitation).                          *)
(***************************************************************************)
\* the references of a segment at every precision
ReferencesOf(seg) == {GetReference(seg, p) : p \in SegmentTypes}

\* the position in added of the first segment that has the reference ref
FirstWith(ref) ==
    CHOOSE i \in 1..Len(added) :
        /\ ref \in ReferencesOf(added[i])
        /\ \A j \in 1..(i - 1) : ref \notin ReferencesOf(added[j])

\* C9: first writer wins: address_index holds exactly the references of the
\* segments added, each mapped to the id of the first segment added that has
\* that reference at some precision.
C9_FirstWriterWins ==
    /\ DOMAIN citation_index.address_index =
          UNION {ReferencesOf(added[i]) : i \in 1..Len(added)}
    /\ \A ref \in DOMAIN citation_index.address_index :
          citation_index.address_index[ref] = SegId(added[FirstWith(ref)])

\* a later segment with another id produced a reference already populated
C9_Witness ==
    \E i, j \in 1..Len(added) :
        /\ i < j
        /\ SegId(added[i]) # SegId(added[j])
        /\ ReferencesOf(added[i]) \cap ReferencesOf(added[j]) # {}

\* the position in added of the first segment whose chain links parent to child
LinksOf(seg) ==
    {<<HierarchyRefs(seg)[i], HierarchyRefs(seg)[i + 1]>> :
        i \in 1..(Len(HierarchyRefs(seg)) - 1)}

Discovery(parent, child) ==
    CHOOSE i \in 1..Len(added) :
        /\ <<parent, child>> \in LinksOf(added[i])
        /\ \A j \in 1..(i - 1) : <<parent, child>> \notin LinksOf(added[j])

\* C10: no child list of hierarchy_index holds a child reference twice, every
\* child is one some added segment links to that parent, and the children
\* stand in the order in which they were first discovered.
C10_HierarchyIdempotent ==
    \A parent \in DOMAIN citation_index.hierarchy_index :
        LET children == citation_index.hierarchy_index[parent]
        IN  /\ \A i, j \in 1..Len(children) : children[i] = children[j] => i = j
            /\ Range(children) =
                  {l[2] : l \in {k \in UNION {LinksOf(added[i]) : i \in 1..Len(added)} :
                                    k[1] = parent}}
            /\ \A i, j \in 1..Len(children) :
                  i < j => Discovery(parent, children[i]) < Discovery(parent, children[j])

\* the same segment was inserted twice and one parent has two children
C10_Witness ==
    /\ \E i, j \in 1..Len(added) : i < j /\ added[i] = added[j]
    /\ \E parent \in DOMAIN citation_index.hierarchy_index :
          Len(citation_index.hierarchy_index[parent]) >= 2

(***************************************************************************)
(* Claims about the segmenter and the CitationManager (SpecManager).       *)
(***************************************************************************)
\* every passage of every page of every document processed so far
PassageSlots ==
    UNION {{<<k, p, u>> : u \in 1..Len(manager[k].source[p].units)} :
              <<k, p>> \in {<<k, p>> \in (1..Len(manager)) \X {1, 2} :
                               p \in DOMAIN manager[k].source}}

PassageAt(slot) == manager[slot[1]].source[slot[2]].units[slot[3]]

\* no passage occurs twice in the text given to the manager
NoRepeatedPassage ==
    \A x, y \in PassageSlots : x # y => PassageAt(x) # PassageAt(y)

C12_SentenceStartsIncrease ==
    \A k \in 1..Len(manager) :
        LET segs == manager[k].segments
        IN  \A i, j \in 1..Len(segs) :
                (/\ i # j
                 /\ segs[i].segment_type = "sent" /\ segs[j].segment_type = "sent"
                 /\ segs[i].address.page = segs[j].address.page
                 /\ segs[i].address.paragraph = segs[j].address.paragraph
                 /\ \/ segs[i].address.sentence < segs[j].address.sentence
                    \/ segs[i].address.sentence = segs[j].address.sentence /\ i < j)
                => segs[i].address.char_start < segs[j].address.char_start

\* C18: no two segments that the segmenter emits for a document share an id.
C18_SegmentIdsUnique ==
    \A k \in 1..Len(manager) :
        LET segs == manager[k].segments
        IN  \A i, j \in 1..Len(segs) : i # j => SegId(segs[i]) # SegId(segs[j])

(***************************************************************************)
(* Claims about the calls of one caller on the store (SpecSequential).     *)
(***************************************************************************)
\* the lower-cased whitespace-split words of a text
Tokens(text) == Range(SplitWords(Lower(text)))

\* the segments an index holds
IndexedSegments(idx) == {idx.segments[id] : id \in DOMAIN idx.segments}

\* a list with no element twice whose position keys never decrease
OnceAscending(results) ==
    /\ \A i, j \in 1..Len(results) : i # j => results[i] # results[j]
    /\ \A i, j \in 1..Len(results) :
           i < j => ~KeyLess(PositionKey(results[j]), PositionKey(results[i]))

\* C13: what a hybrid search returns contains what the exact search and the
\* proximity search of the same query return on the same index.
C13_HybridContainsBoth ==
    \A t \in Threads :
        (th[t].pc = "s_count_load" /\ th[t].search_type = "hybrid") =>
            /\ Range(ExactSearch(th[t].seen, th[t].query)) \subseteq Range(th[t].results)
            /\ Range(ProximitySearch(th[t].seen, th[t].query)) \subseteq Range(th[t].results)

\* a hybrid search of a query of two words returned more than the proximity
\* search of the query, which finds something
C13_Witness ==
    \E t \in Threads :
        /\ th[t].pc = "s_count_load" /\ th[t].search_type = "hybrid"
        /\ Len(SplitWords(th[t].query)) >= 2
        /\ ProximitySearch(th[t].seen, th[t].query) # <<>>
        /\ Range(ProximitySearch(th[t].seen, th[t].query)) # Range(th[t].results)

\* C14: an exact search returns the segments of the index whose words include
\* a word of the query, each once, in ascending (page, paragraph, sentence)
\* order.
C14_ExactSearchResult ==
    \A t \in Threads :
        (th[t].pc = "s_count_load" /\ th[t].search_type = "exact") =>
            /\ Range(th[t].results) =
                   {seg \in IndexedSegments(th[t].seen) :
                       Tokens(seg.content) \cap Tokens(th[t].query) # {}}
            /\ OnceAscending(th[t].results)

\* the segments in which all the words occur and every two adjacent words of
\* the query have occurrences at most 10 positions apart
WithinTen(idx, words) ==
    {seg \in IndexedSegments(idx) :
        LET text_words == SplitWords(Lower(seg.content))
            places(w) == {p \in 1..Len(text_words) : text_words[p] = w}
        IN  /\ \A k \in 1..Len(words) : places(words[k]) # {}
            /\ \A k \in 1..(Len(words) - 1) :
                   \E p1 \in places(words[k]), p2 \in places(words[k + 1]) :
                       p1 - p2 <= 10 /\ p2 - p1 <= 10}

\* C15: a proximity search of a query of fewer than 2 words returns what the
\* exact search returns; of 2 or more words, the segments that have all the
\* words with every two adjacent query words at most 10 positions apart.
C15_ProximitySearchResult ==
    \A t \in Threads :
        (th[t].pc = "s_count_load" /\ th[t].search_type = "proximity") =>
            LET words == SplitWords(Lower(th[t].query))
            IN  IF Len(words) < 2
                THEN th[t].results = ExactSearch(th[t].seen, th[t].query)
                ELSE /\ Range(th[t].results) = WithinTen(th[t].seen, words)
                     /\ OnceAscending(th[t].results)

\* a proximity search of two words left out a segment that has both words
\* more than 10 positions apart and returned one that has them 10 apart
C15_Witness ==
    \E t \in Threads :
        /\ th[t].pc = "s_count_load" /\ th[t].search_type = "proximity"
        /\ Len(SplitWords(th[t].query)) = 2
        /\ SegNear \in Range(th[t].results)
        /\ SegFar \in IndexedSegments(th[t].seen)
        /\ Tokens(th[t].query) \subseteq Tokens(SegFar.content)
        /\ SegFar \notin Range(th[t].results)

\* C16: the step of search, get_search_suggestions, get_navigation_map and
\* optimize_index that finds the document id unknown returns an empty result
\* and leaves the caches, the registry and the global metrics as they are,
\* and so does the return to the caller.
C16_UnknownDocumentIsNoOp ==
    [][\A t \in Threads :
          /\ (/\ th[t].pc \in {"s_check", "gs_check", "nm_check", "o_check"}
              /\ th[t].pdf_id \notin DOMAIN pdf_caches
              /\ th'[t] # th[t])
             => /\ th'[t].pc = "returned"
                /\ th'[t].results = <<>>
                /\ UNCHANGED <<caches, pdf_caches, total_searches, popular_queries>>
          /\ (th[t].pc = "returned" /\ th'[t] # th[t])
             => UNCHANGED <<caches, pdf_caches, total_searches, popular_queries>>]_vars

\* a call on a document id that was never indexed has returned
C16_Witness ==
    \E t \in Threads :
        /\ th[t].pc = "returned"
        /\ th[t].op \in {"search", "get_search_suggestions", "get_navigation_map",
                         "optimize_index"}
        /\ th[t].pdf_id \notin DOMAIN pdf_caches

RECURSIVE SumAccess(_)
SumAccess(cs) == IF Len(cs) = 0 THEN 0 ELSE Head(cs).access_count + SumAccess(Tail(cs))

\* C17: when a search of an indexed document returns, the last record of the
\* document's history carries the call's query, mode and result count; and
\* between calls total_searches is the number of searches that found their
\* document, the sum of access_count over the caches, the sum of the counts
\* of popular_queries, and every history is as long as its access_count.
C17_CountersAgree ==
    \A t \in Threads :
        /\ (th[t].pc = "returned" /\ th[t].op = "search"
                /\ th[t].pdf_id \in DOMAIN pdf_caches) =>
               LET history == caches[th[t].cache].search_history
               IN  /\ Len(history) > 0
                   /\ history[Len(history)] =
                          [query |-> th[t].query, type |-> th[t].search_type,
                           results |-> Len(th[t].results)]
        /\ (\A u \in Threads : th[u].pc \in {"idle", "returned"}) =>
               /\ total_searches = n_search
               /\ total_searches = SumAccess(caches)
               /\ total_searches = SumCounts(popular_queries)
               /\ \A c \in 1..Len(caches) :
                      caches[c].access_count = Len(caches[c].search_history)

\* a search that found segments has returned after an index was built
C17_Witness ==
    \E t \in Threads :
        /\ th[t].pc = "returned" /\ th[t].op = "search"
        /\ th[t].pdf_id \in DOMAIN pdf_caches
        /\ Len(th[t].results) > 0
        /\ calls = 2
        /\ total_searches = FrequentThreshold + 2

\* C19: every list of every proximity graph has at most 5 pairs, in
\* descending order of score, with scores between 0 and 1.
C19_GraphListsWellFormed ==
    \A c \in 1..Len(caches) :
        LET graph == caches[c].semantic_index.proximity_graph
        IN  \A id \in DOMAIN graph :
                /\ Len(graph[id]) <= 5
                /\ \A k \in 1..(Len(graph[id]) - 1) :
                       FractionLeq(graph[id][k + 1][2], graph[id][k][2])
                /\ \A k \in 1..Len(graph[id]) :
                       /\ 0 <= graph[id][k][2][1]
                       /\ graph[id][k][2][1] <= graph[id][k][2][2]

\* C20: an optimize_index that runs right after an optimize_index of the same
\* document leaves the proximity graph as it found it.
C20_OptimizeTwiceSameGraph ==
    \A t \in Threads :
        (/\ th[t].pc = "returned" /\ th[t].op = "optimize_index"
         /\ th[t].last = th[t].pdf_id
         /\ th[t].pdf_id \in DOMAIN pdf_caches) =>
            caches[th[t].cache].semantic_index.proximity_graph
                = th[t].old_index.proximity_graph

(***************************************************************************)
(* Claims about the DeterministicSegmenter on its own (SpecSegmenter).     *)
(***************************************************************************)
\* the segments of a call's result that lie on page page_num
OnPage(call, page_num) ==
    SelectSeq(call.segments, LAMBDA seg : seg.address.page = page_num)

\* C21: a page whose text is empty or only whitespace gives no segment.
C21_EmptyPageNoSegment ==
    \A k \in 1..Len(segmented) :
        \A i \in DOMAIN segmented[k].pages :
            Strip(segmented[k].pages[i][2]) = <<>> =>
                OnPage(segmented[k], segmented[k].pages[i][1]) = <<>>

\* the place in a list of segments of the Paragraph segment that encloses the
\* Sentence segment at place k: the last Paragraph segment before it
ParagraphBefore(segs, k) ==
    CHOOSE j \in 1..(k - 1) :
        /\ segs[j].segment_type = "para"
        /\ \A i \in (j + 1)..(k - 1) : segs[i].segment_type # "para"

\* the running offset of _segment_sentences before the piece of index idx
RECURSIVE PieceOffset(_, _)
PieceOffset(pieces, idx) ==
    IF idx = 0 THEN 0 ELSE PieceOffset(pieces, idx - 1) + Len(pieces[idx]) + 1

\* C23: segmenting the same document id and the same pages twice, in whatever
\* order the pages were put into the dict, gives the same list of segments;
\* the pages come in ascending page number, a page's Page segment before its
\* paragraphs and a paragraph before its sentences.
C23_SegmentationDeterministic ==
    /\ \A i, j \in 1..Len(segmented) :
           (/\ segmented[i].document_id = segmented[j].document_id
            /\ Range(segmented[i].pages) = Range(segmented[j].pages)) =>
               segmented[i].segments = segmented[j].segments
    /\ \A c \in 1..Len(segmented) :
           LET segs == segmented[c].segments
           IN  /\ \A i, j \in 1..Len(segs) :
                      i < j => segs[i].address.page <= segs[j].address.page
               /\ \A k \in 1..Len(segs) :
                      /\ segs[k].segment_type = "para" =>
                             \E j \in 1..(k - 1) :
                                 /\ segs[j].segment_type = "page"
                                 /\ segs[j].address.page = segs[k].address.page
                      /\ segs[k].segment_type = "sent" =>
                             \E j \in 1..(k - 1) :
                                 /\ segs[j].segment_type = "para"
                                 /\ segs[j].address.page = segs[k].address.page
                                 /\ segs[j].address.section = segs[k].address.section
                                 /\ segs[j].address.paragraph = segs[k].address.paragraph
                                 /\ \A i \in (j + 1)..(k - 1) : segs[i].segment_type = "sent"

\* the same two pages were segmented twice for one document, once inserted
\* in descending order of page number
C23_Witness ==
    \E i, j \in 1..Len(segmented) :
        /\ segmented[i].document_id = segmented[j].document_id
        /\ Range(segmented[i].pages) = Range(segmented[j].pages)
        /\ segmented[i].pages # segmented[j].pages
        /\ segmented[i].pages[1][1] > segmented[i].pages[2][1]
        /\ Len(segmented[i].segments) > 2

\* C26: a piece of a paragraph shorter than 10 characters is no segment but
\* takes its sentence index and its length plus one of the running offset:
\* every Sentence segment is a piece of at least 10 characters, its sentence
\* field is the index of the piece among all pieces of its paragraph, its
\* char_start is the paragraph's char_start plus the lengths plus one of the
\* earlier pieces, and its char_end is its char_start plus its length.
C26_ShortPiecesKeepTheirSlot ==
    \A c \in 1..Len(segmented) :
        LET segs == segmented[c].segments
        IN  \A k \in 1..Len(segs) :
                segs[k].segment_type = "sent" =>
                    LET para == segs[ParagraphBefore(segs, k)]
                        pieces == StripAll(PatternSplit("sentence", para.content))
                        idx == segs[k].address.sentence
                    IN  /\ Len(segs[k].content) >= MinSentenceLength
                        /\ idx < Len(pieces)
                        /\ pieces[idx + 1] = segs[k].content
                        /\ segs[k].address.char_start
                               = para.address.char_start + PieceOffset(pieces, idx)
                        /\ segs[k].address.char_end - segs[k].address.char_start
                               = Len(segs[k].content)

\* a sentence that follows a short piece and a long one was emitted with
\* sentence index 2, at the offset the two earlier pieces took
C26_Witness ==
    \E c \in 1..Len(segmented) :
        \E k \in 1..Len(segmented[c].segments) :
            LET seg == segmented[c].segments[k]
            IN  /\ seg.segment_type = "sent"
                /\ seg.address.sentence = 2
                /\ seg.address.char_start = Len(SentenceOf("A")) + 1 + Len(ShortSentence) + 1
                /\ \A j \in 1..Len(segmented[c].segments) :
                       segmented[c].segments[j].segment_type = "sent" =>
                           segmented[c].segments[j].address.sentence # 1

(***************************************************************************)
(* Claims about the addresses the system constructs (SpecCodec).           *)
(***************************************************************************)
\* C24: every address that the segmenter emits or that from_reference
\* returns has char_start <= char_end and page >= 0.
C24_AddressesWellFormed ==
    /\ (codec_pc = "decoded" /\ decoded.ok) =>
           /\ decoded.addr.char_start <= decoded.addr.char_end
           /\ decoded.addr.page >= 0
    /\ \A c \in 1..Len(segmented) :
           \A k \in 1..Len(segmented[c].segments) :
               /\ segmented[c].segments[k].address.char_start
                      <= segmented[c].segments[k].address.char_end
               /\ segmented[c].segments[k].address.page >= 0

(***************************************************************************)
(* Claims about lookups in a CitationManager's index (SpecLookup).         *)
(***************************************************************************)
\* the segments the index holds
HeldSegments == {citation_index.segments[id] : id \in DOMAIN citation_index.segments}

\* C22: resolve_citation returns None or a segment of the index's segments
\* map, for every index and every string, and leaves the index as it is.
C22_ResolveTotalAndReadOnly ==
    [][(lookup' # lookup /\ lookup'.op = "resolve_citation") =>
          /\ citation_index' = citation_index
          /\ \/ lookup'.result = <<>>
             \/ /\ Len(lookup'.result) = 1
                /\ lookup'.result[1] \in HeldSegments]_vars

\* the reference of an unknown document was resolved to None on an index
\* that holds segments
C22_Witness ==
    /\ lookup.op = "resolve_citation"
    /\ lookup.reference \in UnknownReferences
    /\ lookup.result = <<>>
    /\ lookup.served > 0

\* the Paragraph segments given to the index that enclose segment seg
EnclosingParagraphs(seg) ==
    {p \in Range(added) :
        /\ p.segment_type = "para"
        /\ p.address.document_id = seg.address.document_id
        /\ p.address.page = seg.address.page
        /\ p.address.section = seg.address.section
        /\ p.address.paragraph = seg.address.paragraph}

\* C25: get_context(reference, "paragraph") returns {} when the reference
\* does not resolve; otherwise its paragraph entry is the content of the
\* Paragraph segment that encloses the resolved paragraph or sentence, and
\* its surrounding list has one entry for each of the offsets -1, 0, +1 whose
\* sentence reference resolves, in that order, and no other.
C25_ParagraphContext ==
    (/\ lookup.op = "get_context" /\ lookup.context_type = "paragraph"
     /\ lookup.served = Len(manager)) =>
        LET found == ResolveCitation(citation_index, lookup.reference)
        IN  IF found = <<>> THEN lookup.result = <<>>
            ELSE /\ lookup.result # <<>>
                 /\ LET context == lookup.result[1]
                        addr == found[1].address
                        resolving ==
                            {k \in 1..3 : SurroundingEntry(citation_index, addr, SentOffsets[k]) # <<>>}
                    IN  /\ found[1].segment_type \in {"para", "sent"} =>
                               \A p \in EnclosingParagraphs(found[1]) :
                                   context.paragraph = <<p.content>>
                        /\ Len(context.surrounding) <= 3
                        /\ {e.offset : e \in Range(context.surrounding)}
                               = {SentOffsets[k] : k \in resolving}
                        /\ \A i, j \in 1..Len(context.surrounding) :
                               i < j => context.surrounding[i].offset
                                            < context.surrounding[j].offset

\* C27: resolving the sentence-precision reference of a Sentence segment that
\* the segmenter emitted returns that Sentence segment.
C27_SentenceResolvesToItself ==
    (lookup.op = "resolve_citation" /\ lookup.served = Len(manager)) =>
        \A k \in 1..Len(added) :
            (/\ added[k].segment_type = "sent"
             /\ lookup.reference = GetReference(added[k], "sent")) =>
                lookup.result = <<added[k]>>

(***************************************************************************)
(* Further claims about the calls of one caller on the store               *)
(* (SpecSequential).                                                       *)
(***************************************************************************)
\* C28: every key of a document's proximity graph and every target of an
\* edge in it is the id of a segment that the document's index holds.
C28_GraphWithinDocument ==
    \A d \in DOMAIN pdf_caches :
        LET idx == caches[pdf_caches[d]].semantic_index
        IN  \A id \in DOMAIN idx.proximity_graph :
                /\ id \in DOMAIN idx.segments
                /\ \A k \in 1..Len(idx.proximity_graph[id]) :
                       idx.proximity_graph[id][k][1] \in DOMAIN idx.segments
\* C29: a step of create_or_update_index on a document that is indexed
\* changes nothing but the index and last_updated of the document's cache:
\* the cache's access_count, search_history and optimization_metrics, the
\* other caches, total_searches and popular_queries stay as they are; and no
\* step of any call takes a document id out of the registry.
C29_RebuildFrame ==
    [][/\ \A t \in Threads :
              (/\ th'[t] # th[t]
               /\ th[t].op = "create_or_update_index"
               /\ th[t].pdf_id \in DOMAIN pdf_caches) =>
                  /\ pdf_caches' = pdf_caches
                  /\ total_searches' = total_searches
                  /\ popular_queries' = popular_queries
                  /\ Len(caches') = Len(caches)
                  /\ \A c \in 1..Len(caches) :
                         IF c = pdf_caches[th[t].pdf_id]
                         THEN /\ caches'[c].pdf_id = caches[c].pdf_id
                              /\ caches'[c].access_count = caches[c].access_count
                              /\ caches'[c].search_history = caches[c].search_history
                              /\ caches'[c].optimization_metrics
                                     = caches[c].optimization_metrics
                         ELSE caches'[c] = caches[c]
       /\ DOMAIN pdf_caches \subseteq DOMAIN pdf_caches']_vars

\* a rebuild of a document that has been searched and has another index than
\* before has returned, and the document's history is still there
C29_Witness ==
    \E t \in Threads :
        /\ th[t].pc = "returned" /\ th[t].op = "create_or_update_index"
        /\ th[t].rebuild
        /\ caches[th[t].cache].semantic_index # th[t].old_index
        /\ caches[th[t].cache].access_count > 0
        /\ Len(caches[th[t].cache].search_history) > 0

(***************************************************************************)
(* A further claim about concurrent calls on the store (Spec).             *)
(***************************************************************************)
\* C30: once two create_or_update_index calls for one document id with
\* different segment lists have both finished, the index registered for the
\* id holds exactly the segments of one of the two lists, and the registry
\* maps the id to one cache object of that id.
C30_ConcurrentRebuildsNoMixture ==
    \A t, u \in Threads :
        (/\ t # u
         /\ th[t].pc = "returned" /\ th[u].pc = "returned"
         /\ th[t].op = "create_or_update_index" /\ th[u].op = "create_or_update_index"
         /\ th[t].pdf_id = th[u].pdf_id
         /\ th[t].text_segments # th[u].text_segments) =>
            /\ caches[pdf_caches[th[t].pdf_id]].semantic_index.segments
                   \in {BuildIndex(th[t].text_segments).segments,
                        BuildIndex(th[u].text_segments).segments}
            /\ pdf_caches[th[t].pdf_id] \in 1..Len(caches)
            /\ caches[pdf_caches[th[t].pdf_id]].pdf_id = th[t].pdf_id

====
